---- MODULE Spec2Model ----
(***************************************************************************)
(* The driver loop of qp::affine::IPM (Elemental),                         *)
(* src/src/optimization/solvers/QP/affine/IPM/IPM.cpp, as a state machine. *)
(*                                                                         *)
(* One run of IPM is one behaviour.  The four overloads (dense local,      *)
(* dense distributed, sparse local, sparse distributed) are the four       *)
(* values of `backend`; the caller's IPMCtrl is `ctrl`.  The position in   *)
(* the loop body is `pc`.  Values of type Real are exact rationals,        *)
(* extended with +Inf, -Inf and NaN so that 1/maxStepRatio and the         *)
(* products that follow it are defined for every ctrl the caller can       *)
(* pass.  Rounding is not modelled.                                        *)
(*                                                                         *)
(* The linear algebra the driver calls (Hemv, Gemv, Multiply, Nrm2, LDL,   *)
(* ldl::SolveAfter, reg_ldl::SolveAfter, ...) is outside this file: the    *)
(* residual norms and objectives an evaluation yields, the outcome of a    *)
(* factorization or solve and the directions a solve returns are inputs    *)
(* of the step that calls them, drawn from small sets.  The objectives,    *)
(* the gaps, the step lengths and the complementarity residual are         *)
(* computed from the problem data and the iterates as the driver computes  *)
(* them.                                                                   *)
(***************************************************************************)
EXTENDS Integers, Sequences, FiniteSets, TLC

VARIABLES
    backend,        \* which overload of IPM runs
    ctrl,           \* the IPMCtrl passed by the caller
    pre,            \* the caller's QPre, APre, GPre, bPre, cPre, hPre
    prob,           \* the driver's copies Q, A, G, b, c, h
    equil,          \* dRowA, dRowG, dCol
    pc,             \* position of the driver
    outcome,        \* how the call ended: "none" while it runs
    errArgs,        \* the values an error message reports
    failure,        \* the failure site that fired in this run, if any
    numIts,         \* the loop counter
    x, y, z, s,     \* the iterates
    given,          \* x, y, z, s as the caller passed them
    evalAt,         \* the iterates as of the last residual evaluation
    conv,           \* rbConv, rcConv, rhConv, primObj, dualObj of that evaluation
    infeasError, dimacsError, dimacsErrorOld,
    relObjGap, relCompGap,
    metTolerances,
    mu,             \* the duality measure of the iteration
    rmu,            \* the complementarity residual
    dirAff,         \* the affine direction dxAff, dyAff, dzAff, dsAff
    alphaAffPri, alphaAffDual,
    muAff, sigma,
    dir,            \* dx, dy, dz, ds (dz and ds double as temporaries)
    alphaPri, alphaDual,
    branches,       \* the branch each process took at the last decision point
    lastSolve,      \* which stages the last sparse solve ran
    ops,            \* the calls on J and its factorization in this iteration
    handle,         \* sparseLDLFact
    secondRhs,      \* what d held when RegularizedSolveAfter was called
    regLarge,       \* the large regularization of the sparse overloads
    kkt,            \* the diagonals of JStatic, JOrig and J
    calls,          \* per process, the calls made in the latest step
    uplo,           \* HermitianFrobeniusNorm: the triangle that is read
    A,              \* its matrix argument, A[i][j] from 0
    grid,           \* the process grid, r x c
    align,          \* ColAlignment and RowAlignment of A
    normPc,         \* where the call of HermitianFrobeniusNorm stands
    localNormSquared, \* per process that finished its loops, its local sum
    visits,         \* how often each entry (i, j) was read, over all processes
    normSquared,    \* the result of the AllReduce
    numGate,        \* residual/gate evaluations so far
    numFactor,      \* factorizations of J so far
    numUpdates      \* variable updates so far

vars == << backend, ctrl, given, pre, prob, equil, pc, outcome, errArgs, failure,
           numIts, x, y, z, s, evalAt, conv, infeasError, dimacsError,
           dimacsErrorOld, relObjGap, relCompGap, metTolerances, mu, rmu,
           dirAff, alphaAffPri, alphaAffDual, muAff, sigma, dir, alphaPri,
           alphaDual, branches, lastSolve, ops, handle, secondRhs, regLarge,
           kkt, calls, numGate, numFactor, numUpdates,
           uplo, A, grid, align, normPc, localNormSquared, visits,
           normSquared >>

normVars == << uplo, A, grid, align, normPc, localNormSquared, visits,
              normSquared >>

iterates == << x, y, z, s >>

-----------------------------------------------------------------------------
(* Bounds of the model *)

\* the largest ctrl.maxIts the model runs
MaxIts == 2

\* the number of processes of the grid in the distributed backends
GridSize == 2

\* k = G.Height(), the number of inequality constraints (n = m = 1)
K == 2

\* the largest height and width of the argument of HermitianFrobeniusNorm
MaxDim == 3

\* the largest height and width of its process grid
MaxGridDim == 2

-----------------------------------------------------------------------------
(* Real: <<num, den>> in lowest terms with den >= 0.                       *)
(* den = 0: <<1,0>> is +Inf, <<-1,0>> is -Inf, <<0,0>> is NaN.             *)

RECURSIVE Gcd(_, _)
Gcd(a, b) == IF b = 0 THEN a ELSE Gcd(b, a % b)

IAbs(n) == IF n < 0 THEN -n ELSE n

Sgn(n) == IF n > 0 THEN 1 ELSE IF n < 0 THEN -1 ELSE 0

Norm(n, d) ==
    IF d = 0 THEN << Sgn(n), 0 >>
    ELSE LET g == Gcd(IAbs(n), d) IN << n \div g, d \div g >>

Zero == << 0, 1 >>
One  == << 1, 1 >>
Two  == << 2, 1 >>
NaN  == << 0, 0 >>
Rat(n, d) == Norm(n, d)

IsNaN(a) == a[1] = 0 /\ a[2] = 0
IsInf(a) == a[1] # 0 /\ a[2] = 0

RNeg(a) == << -a[1], a[2] >>

RAdd(a, b) ==
    IF a[2] = 0 /\ b[2] = 0
    THEN IF a = b THEN a ELSE NaN
    ELSE Norm(a[1] * b[2] + b[1] * a[2], a[2] * b[2])

RSub(a, b) == RAdd(a, RNeg(b))

RMul(a, b) == Norm(a[1] * b[1], a[2] * b[2])

RInv(a) ==
    IF a[1] > 0 THEN << a[2], a[1] >>
    ELSE IF a[1] < 0 THEN << -a[2], -a[1] >>
    ELSE IF a[2] = 0 THEN NaN ELSE << 1, 0 >>

RDiv(a, b) == RMul(a, RInv(b))

\* a < b; false when either is NaN, as for IEEE and MPFR comparisons
RLt(a, b) ==
    /\ ~IsNaN(a)
    /\ ~IsNaN(b)
    /\ IF a[2] = 0 /\ b[2] = 0 THEN a[1] < b[1]
       ELSE a[1] * b[2] < b[1] * a[2]

RLe(a, b) == ~IsNaN(a) /\ ~IsNaN(b) /\ (a = b \/ RLt(a, b))
RGe(a, b) == RLe(b, a)
REq(a, b) == ~IsNaN(a) /\ ~IsNaN(b) /\ a = b

\* El::Min and El::Max are std::min and std::max
Min(m, n) == IF RLt(n, m) THEN n ELSE m
Max(m, n) == IF RLt(m, n) THEN n ELSE m
Abs(a) == << IAbs(a[1]), a[2] >>

-----------------------------------------------------------------------------
(* Vectors are sequences of Real *)

RECURSIVE DotUpTo(_, _, _)
DotUpTo(u, v, i) ==
    IF i = 0 THEN Zero ELSE RAdd(DotUpTo(u, v, i - 1), RMul(u[i], v[i]))

Dot(u, v) == DotUpTo(u, v, Len(u))

\* Y := alpha X + Y
Axpy(alpha, X, Y) == [i \in 1..Len(Y) |-> RAdd(Y[i], RMul(alpha, X[i]))]

\* pos_orth::NumOutside: the number of nonpositive entries
NumOutside(v) == Cardinality({i \in 1..Len(v) : RLe(v[i], Zero)})

\* pos_orth::MaxStep: min(upperBound, min over ds_i < 0 of -s_i / ds_i)
RECURSIVE MaxStepUpTo(_, _, _, _)
MaxStepUpTo(v, dv, upperBound, i) ==
    IF i = 0 THEN upperBound
    ELSE LET alpha == MaxStepUpTo(v, dv, upperBound, i - 1) IN
         IF RLt(dv[i], Zero) THEN Min(alpha, RDiv(RNeg(v[i]), dv[i]))
         ELSE alpha

MaxStep(v, dv, upperBound) == MaxStepUpTo(v, dv, upperBound, Len(v))

AllPositive(v) == \A i \in 1..Len(v) : RLt(Zero, v[i])

Ones(len) == [i \in 1..len |-> One]

\* DiagonalScale( LEFT, NORMAL, d, v ) and DiagonalSolve( LEFT, NORMAL, d, v )
\* on a vector v
DiagonalScale(d, v) == [i \in 1..Len(v) |-> RMul(d[i], v[i])]
DiagonalSolve(d, v) == [i \in 1..Len(v) |-> RDiv(v[i], d[i])]

\* v += a in every entry
Shift(v, a) == [i \in 1..Len(v) |-> RAdd(v[i], a)]

\* a matrix is the sequence of its rows
DiagonalSolveLeft(d, M) ==
    [i \in 1..Len(M) |-> [j \in 1..Len(M[i]) |-> RDiv(M[i][j], d[i])]]
DiagonalSolveRight(d, M) ==
    [i \in 1..Len(M) |-> [j \in 1..Len(M[i]) |-> RDiv(M[i][j], d[j])]]

\* Hemv( LOWER, 1, Q, v, 0, d ): only the lower triangle of Q is read
Hemv(Q, v) ==
    [i \in 1..Len(Q) |->
        DotUpTo([j \in 1..Len(v) |-> IF j <= i THEN Q[i][j] ELSE Q[j][i]],
                v, Len(v))]

\* Multiply( NORMAL, 1, Q, v, 0, d )
Multiply(Q, v) == [i \in 1..Len(Q) |-> DotUpTo(Q[i], v, Len(v))]

-----------------------------------------------------------------------------
(* The two gap functions at the head of IPM.cpp *)

\* (mutant) the sign of dualObj is not tested
RelativeComplementarityGapNoElse(primalObj, dualObj, dualityProduct) ==
    IF RLt(primalObj, Zero) THEN RDiv(dualityProduct, RNeg(primalObj))
    ELSE RDiv(dualityProduct, dualObj)

RelativeComplementarityGap(primalObj, dualObj, dualityProduct) ==
    IF RLt(primalObj, Zero) THEN RDiv(dualityProduct, RNeg(primalObj))
    ELSE IF RLt(Zero, dualObj) THEN RDiv(dualityProduct, dualObj)
    ELSE Two

RelativeObjectiveGap(primalObj, dualObj, dualityProduct) ==
    RDiv(Abs(RSub(primalObj, dualObj)),
         RAdd(Max(Abs(primalObj), Abs(dualObj)), One))

-----------------------------------------------------------------------------
(* Inputs *)

Backends == {"dense_local", "dense_dist", "sparse_local", "sparse_dist"}
IsSparse == backend \in {"sparse_local", "sparse_dist"}
IsDist   == backend \in {"dense_dist", "sparse_dist"}

\* the processes of the grid: grid.Rank() of each
Ranks == IF IsDist THEN 0..(GridSize - 1) ELSE {0}

\* ctrl.maxStepRatio is not validated by IPM: 0 and 1 are the ends of (0,1)
StepRatios == { Zero, Rat(1, 2), One }

Ctrls ==
    [ maxIts : -1..MaxIts,
      maxStepRatio : StepRatios,
      forceSameStep : BOOLEAN,
      twoStage : BOOLEAN,
      outerEquil : BOOLEAN,
      primalInit : BOOLEAN,
      dualInit : BOOLEAN,
      mehrotra : BOOLEAN,
      print : BOOLEAN,
      time : BOOLEAN,
      checkResiduals : BOOLEAN,
      infeasibilityTol : { Rat(1, 2) },
      relativeComplementarityGapTol : { One },
      relativeObjectiveGapTol : { Rat(1, 2) },
      minDimacsDecreaseRatio : { Rat(1, 2) },
      xRegSmall : { Rat(1, 8) },
      yRegSmall : { Rat(1, 4) },
      zRegSmall : { Rat(1, 2) },
      xRegLarge : { One },
      yRegLarge : { Two },
      zRegLarge : { Rat(3, 1) } ]

\* problems with n = m = 1 and k = K: Q, A, G as rows, b, c, h as vectors
Problems ==
    { [Q |-> << << Zero >> >>, A |-> << << One >> >>,
       G |-> << << One >>, << Rat(-1, 1) >> >>,
       b |-> << Rat(8, 1) >>, c |-> << Rat(-8, 1) >>, h |-> << Zero, Zero >>],
      [Q |-> << << Two >> >>, A |-> << << One >> >>,
       G |-> << << One >>, << Rat(-1, 1) >> >>,
       b |-> << Rat(-3, 1) >>, c |-> << Zero >>, h |-> << Zero, Zero >>] }

\* seed scenario 3: n = 2, Q = I, c = 0, m = 0, G = [I; -I], h = (1,1,0,0)
BoxProblem ==
    [Q |-> << << One, Zero >>, << Zero, One >> >>,
     A |-> << >>,
     G |-> << << One, Zero >>, << Zero, One >>,
              << Rat(-1, 1), Zero >>, << Zero, Rat(-1, 1) >> >>,
     b |-> << >>, c |-> << Zero, Zero >>, h |-> << One, One, Zero, Zero >>]

IsBox(p) == Len(p.c) = 2

\* the locals Q, A, G, b, c, h before the copies are made
NoProblem == [Q |-> << >>, A |-> << >>, G |-> << >>,
              b |-> << >>, c |-> << >>, h |-> << >>]

\* (s, z) as the caller passes them: a warm start is taken as it is given
InitCone ==
    { << << One, One >>, << One, One >> >>,
      << << Zero, One >>, << Rat(-1, 1), Rat(-1, 1) >> >> }

\* x, y, z, s as the caller passes them
Starts(p) ==
    IF IsBox(p)
    THEN { [x |-> << v, v >>, y |-> << >>,
            z |-> << One, One, One, One >>, s |-> << One, w, One, One >>]
           : v \in { Zero, Rat(1, 2) }, w \in { One, Zero } }
    ELSE { [x |-> << v >>, y |-> << v >>, z |-> c[2], s |-> c[1]]
           : v \in { Zero, One }, c \in { d \in InitCone : Len(d[1]) = K } }

\* what Initialize computes for the part no warm start was given for
DefaultStarts(p) ==
    { st \in Starts(p) : AllPositive(st.s) /\ AllPositive(st.z) }

\* what StackedRuizEquil can return: positive dRowA (m), dRowG (k), dCol (n)
Scalings(p) ==
    IF IsBox(p)
    THEN { [dRowA |-> << >>, dRowG |-> << Two, One, Two, One >>,
            dCol |-> << Two, One >>] }
    ELSE { [dRowA |-> << Two >>, dRowG |-> << Two, Rat(4, 1) >>,
            dCol |-> << Two >>] }

\* Ones( dRowA, m, 1 ); Ones( dRowG, k, 1 ); Ones( dCol, n, 1 );
OnesScaling(p) ==
    [dRowA |-> Ones(Len(p.b)), dRowG |-> Ones(Len(p.h)), dCol |-> Ones(Len(p.c))]

NoScaling == [dRowA |-> << >>, dRowG |-> << >>, dCol |-> << >>]

\* the problem after StackedRuizEquil and the DiagonalSolve calls that follow
Equilibrate(p, D) ==
    [Q |-> DiagonalSolveRight(D.dCol, DiagonalSolveLeft(D.dCol, p.Q)),
     A |-> DiagonalSolveRight(D.dCol, DiagonalSolveLeft(D.dRowA, p.A)),
     G |-> DiagonalSolveRight(D.dCol, DiagonalSolveLeft(D.dRowG, p.G)),
     b |-> DiagonalSolve(D.dRowA, p.b),
     c |-> DiagonalSolve(D.dCol, p.c),
     h |-> DiagonalSolve(D.dRowG, p.h)]

\* xTQx, primObj and dualObj of the current iterate
XTQX == Dot(x, IF IsSparse THEN Multiply(prob.Q, x) ELSE Hemv(prob.Q, x))
PrimObj == RAdd(RDiv(XTQX, Two), Dot(prob.c, x))
DualObj == RSub(RSub(RDiv(RNeg(XTQX), Two), Dot(prob.b, y)), Dot(prob.h, z))

\* what Nrm2 can yield for the three residuals: rbConv, rcConv, rhConv
ResidualNorms ==
    { << Zero, Zero, Zero >>,
      << Rat(1, 4), Rat(1, 2), Zero >>,
      << Zero, Rat(1, 4), One >> }

\* what one residual evaluation can yield: rbConv, rcConv, rhConv, primObj, dualObj
Evaluations ==
    { [rbConv |-> r[1], rcConv |-> r[2], rhConv |-> r[3],
       primObj |-> PrimObj, dualObj |-> DualObj] : r \in ResidualNorms }

\* what the affine solve can return: dxAff, dyAff, dzAff, dsAff
AffDirections ==
    IF IsBox(prob)
    THEN { [dx |-> << Rat(-1, 2), Rat(-1, 2) >>, dy |-> << >>,
            dz |-> << Rat(-1, 1), Rat(-1, 1), Rat(-1, 1), Rat(-1, 1) >>,
            ds |-> << Rat(-1, 1), Rat(-2, 1), Rat(-1, 1), Rat(-1, 1) >>] }
    ELSE { [dx |-> << One >>, dy |-> << One >>,
            dz |-> << Rat(-2, 1), One >>, ds |-> << Rat(-1, 1), Rat(-4, 1) >>],
           [dx |-> << Zero >>, dy |-> << Zero >>,
            dz |-> << One, One >>, ds |-> << One, One >>] }

\* what ctrl.centralityRule can return
Sigmas == { Zero, Rat(1, 2) }

\* what the combined solve can return: dx, dy (n = m = 1), dz, ds
Directions ==
    { [dx |-> << One >>, dy |-> << One >>,
       dz |-> << Rat(-1, 1), Zero >>, ds |-> << Rat(-1, 1), Rat(-2, 1) >>],
      [dx |-> << Rat(-1, 1) >>, dy |-> << One >>,
       dz |-> << Rat(-2, 1), One >>, ds |-> << One, Zero >>],
      [dx |-> << One >>, dy |-> << Rat(-1, 1) >>,
       dz |-> << One, One >>, ds |-> << Zero, One >>] }

\* the same for the box problem (n = 2, m = 0, k = 4)
BoxDirections ==
    { [dx |-> << Rat(-1, 2), Rat(-1, 2) >>, dy |-> << >>,
       dz |-> << Rat(-1, 1), Rat(-1, 1), Rat(-1, 1), Rat(-1, 1) >>,
       ds |-> << Rat(-1, 1), Zero, Rat(-1, 1), Zero >>],
      [dx |-> << Rat(-1, 4), Zero >>, dy |-> << >>,
       dz |-> << Rat(-1, 2), Zero, Rat(-1, 2), Zero >>,
       ds |-> << One, One, Rat(-1, 2), Rat(-1, 2) >>] }

NoDir == [dx |-> << >>, dy |-> << >>, dz |-> << >>, ds |-> << >>]

NoConv == [rbConv |-> Zero, rcConv |-> Zero, rhConv |-> Zero,
           primObj |-> Zero, dualObj |-> Zero]

NoSolve == [kind |-> "none", first |-> "skipped", second |-> "not_run"]

\* SparseLDLFactorization<Real> sparseLDLFact;
NoHandle == [analysed |-> "no", initCalls |-> 0, values |-> -1, factored |-> -1]

\* SparseMatrix<Real> J, JOrig; and JStatic before StaticKKT
NoKKT == [JStatic |-> << >>, JOrig |-> << >>, J |-> << >>]

-----------------------------------------------------------------------------
(* internal::HermitianFrobeniusNorm, sequential and distributed *)

Height(M) == Cardinality(DOMAIN M)
Width(M) == IF DOMAIN M = {} THEN 0 ELSE Cardinality(DOMAIN M[0])

\* the sum of the values of a function with a finite domain
RECURSIVE SumOf(_)
SumOf(f) ==
    IF DOMAIN f = {} THEN 0
    ELSE LET e == CHOOSE e \in DOMAIN f : TRUE
         IN  f[e] + SumOf([d \in DOMAIN f \ {e} |-> f[d]])

\* the rows the sequential loops read in column j:
\*   UPPER: for( i=0; i<j; ++i ), then A.Get(j,j)
\*   LOWER: for( i=j+1; i<A.Height(); ++i ), then A.Get(j,j)
SeqRows(ul, M, j) ==
    IF ul = "UPPER" THEN (0..(j - 1)) \cup {j}
    ELSE ((j + 1)..(Height(M) - 1)) \cup {j}

\* normSquared of the Matrix<R> version: 2*alpha*alpha off the diagonal,
\* alpha*alpha on it; the logic error for a matrix that is not square
HermitianFrobeniusNormSeq(ul, M) ==
    IF Height(M) # Width(M)
    THEN [outcome |-> "logic_error", normSquared |-> 0]
    ELSE [outcome |-> "returned",
          normSquared |->
            SumOf([e \in { << i, j >> \in (0..(Height(M) - 1)) \X (0..(Width(M) - 1)) :
                             i \in SeqRows(ul, M, j) } |->
                     IF e[1] # e[2] THEN 2 * M[e[1]][e[2]] * M[e[1]][e[2]]
                     ELSE M[e[1]][e[2]] * M[e[1]][e[2]]])]

\* the processes of the grid, (row, column)
Procs == (0..(grid.r - 1)) \X (0..(grid.c - 1))

\* Shift( rank, alignment, stride ) of the element-cyclic distribution
AlignShift(rank, alignment, stride) == (rank + stride - alignment) % stride

\* A.ColShift() and A.RowShift() on process p
ColShift(p) == AlignShift(p[1], align.col, grid.r)
RowShift(p) == AlignShift(p[2], align.row, grid.c)

\* LocalLength( n, shift, stride ): how many of 0..n-1 are shift mod stride
LocalLength(n, shift, stride) ==
    IF n > shift THEN ((n - shift - 1) \div stride) + 1 ELSE 0

\* A.LocalHeight() and A.LocalWidth() on process p
NormLocalHeight(p) == LocalLength(Height(A), ColShift(p), grid.r)
NormLocalWidth(p) == LocalLength(Width(A), RowShift(p), grid.c)

\* (mutant) the diagonal row is left out of the upper rows
NumUpperRowsStrict(j, colShift, r) == LocalLength(j, colShift, r)

\* int numUpperRows = LocalLength(j+1,colShift,r);
NumUpperRows(j, colShift, r) == LocalLength(j + 1, colShift, r)

\* int numStrictlyUpperRows = LocalLength(j,colShift,r);
NumStrictlyUpperRows(j, colShift, r) == LocalLength(j, colShift, r)

\* the local entries (iLocal, jLocal) the two loops of process p read
LocalVisited(p) ==
    { e \in (0..(NormLocalHeight(p) - 1)) \X (0..(NormLocalWidth(p) - 1)) :
        LET j == RowShift(p) + e[2] * grid.c
        IN  IF uplo = "UPPER"
            THEN e[1] < NumUpperRows(j, ColShift(p), grid.r)
            ELSE e[1] >= NumStrictlyUpperRows(j, ColShift(p), grid.r) }

\* the entry of A that process p holds at (iLocal, jLocal)
GlobalIndex(p, e) ==
    << ColShift(p) + e[1] * grid.r, RowShift(p) + e[2] * grid.c >>

GetLocalEntry(p, e) == A[GlobalIndex(p, e)[1]][GlobalIndex(p, e)[2]]

\* localNormSquared of process p after its loops
LocalNormSquared(p) ==
    SumOf([e \in LocalVisited(p) |->
             LET alpha == GetLocalEntry(p, e)
                 g == GlobalIndex(p, e)
             IN  IF g[1] # g[2] THEN 2 * alpha * alpha ELSE alpha * alpha])

\* the matrices the norm is taken of: every entry different in magnitude
\* from the others of its row and column, not symmetric
NormMatrices ==
    { [i \in 0..(h - 1) |-> [j \in 0..(w - 1) |->
          IF sgn THEN (1 + i + MaxDim * j) ELSE -(2 + j + 2 * MaxDim * i)]]
      : h \in 1..MaxDim, w \in 1..MaxDim, sgn \in BOOLEAN }

\* no call of HermitianFrobeniusNorm
NormIdle ==
    /\ uplo = "UPPER"
    /\ A = << >>
    /\ grid = [r |-> 1, c |-> 1]
    /\ align = [col |-> 0, row |-> 0]
    /\ normPc = "idle"
    /\ localNormSquared = << >>
    /\ visits = << >>
    /\ normSquared = 0

-----------------------------------------------------------------------------
(* State on entry to IPM: the caller's arguments and the locals not yet set *)

InitWith(ctrls, problems) ==
    /\ backend \in Backends
    /\ ctrl \in ctrls
    /\ (backend \in {"dense_local", "dense_dist"} => ~ctrl.twoStage)
    /\ pre \in problems
    /\ \E st \in Starts(pre) : x = st.x /\ y = st.y /\ z = st.z /\ s = st.s
    /\ given = << x, y, z, s >>
    /\ prob = NoProblem
    /\ equil = NoScaling
    /\ pc = "entry"
    /\ outcome = "none"
    /\ errArgs = << >>
    /\ failure = "none"
    /\ numIts = 0
    /\ evalAt = << >>
    /\ conv = NoConv
    /\ infeasError = One
    /\ dimacsError = One
    /\ dimacsErrorOld = One
    /\ relObjGap = Zero
    /\ relCompGap = Zero
    /\ metTolerances = FALSE
    /\ mu = Zero
    /\ rmu = << >>
    /\ dirAff = NoDir
    /\ alphaAffPri = Zero
    /\ alphaAffDual = Zero
    /\ muAff = Zero
    /\ sigma = Zero
    /\ dir = NoDir
    /\ alphaPri = Zero
    /\ alphaDual = Zero
    /\ branches = [r \in Ranks |-> "none"]
    /\ lastSolve = NoSolve
    /\ ops = << >>
    /\ handle = NoHandle
    /\ secondRhs = "not_run"
    /\ regLarge = << >>
    /\ kkt = NoKKT
    /\ calls = [r \in Ranks |-> << >>]
    /\ numGate = 0
    /\ numFactor = 0
    /\ numUpdates = 0

\* the calls of the driver loop: a warm start, no outer equilibration, the
\* options mehrotra and forceSameStep switched on and off together
Init ==
    /\ InitWith({ c \in Ctrls : /\ ~c.print /\ ~c.time /\ ~c.checkResiduals
                                /\ ~c.outerEquil /\ c.primalInit /\ c.dualInit
                                /\ c.mehrotra = c.forceSameStep },
                Problems)
    /\ NormIdle

-----------------------------------------------------------------------------
(* The decisions of the loop body, one operator per condition of the code *)

\* (mutant) the loop stops one iteration early
LoopCondStrict(its) == its < ctrl.maxIts

\* (mutant) the condition is tested after the body, as in a do-while loop
LoopCondAfterBody(its) == its = 0 \/ its <= ctrl.maxIts

\* numIts<=ctrl.maxIts
LoopCond(its) == its <= ctrl.maxIts

\* (mutant) only s is checked
ConeViolatedOnlyS(sNumNonPos, zNumNonPos) == sNumNonPos > 0

\* (mutant) the check fails only when both s and z have left the cone
ConeViolatedBoth(sNumNonPos, zNumNonPos) == sNumNonPos > 0 /\ zNumNonPos > 0

\* if( sNumNonPos > 0 || zNumNonPos > 0 ) LogicError(...)
ConeViolated(sNumNonPos, zNumNonPos) == sNumNonPos > 0 \/ zNumNonPos > 0

\* const bool metTolerances = ...
MetTolerances(infeas, relComp, relObj) ==
    /\ RLe(infeas, ctrl.infeasibilityTol)
    /\ RLe(relComp, ctrl.relativeComplementarityGapTol)
    /\ RLe(relObj, ctrl.relativeObjectiveGapTol)

\* infeasError = Max(Max(rbConv,rcConv),rhConv);
InfeasError(rbConv, rcConv, rhConv) == Max(Max(rbConv, rcConv), rhConv)

\* (mutant) the complementarity gap is left out of the DIMACS error
DimacsErrorNoComp(infeas, relObj, relComp) == Max(infeas, relObj)

\* maxRelGap = Max(relObjGap,relCompGap); dimacsError = Max(infeasError,maxRelGap);
DimacsError(infeas, relObj, relComp) == Max(infeas, Max(relObj, relComp))

\* (mutant) met at the iteration limit is not a success
GateDecisionNoLimitSuccess(met, dimacs, dimacsOld, its) ==
    IF met
    THEN IF RGe(dimacs, RMul(ctrl.minDimacsDecreaseRatio, dimacsOld))
         THEN "break"
         ELSE "continue"
    ELSE IF its = ctrl.maxIts THEN "limit" ELSE "continue"

\* (mutant) the limit error does not look at metTolerances
GateDecisionLimitWhenMet(met, dimacs, dimacsOld, its) ==
    IF met /\ RGe(dimacs, RMul(ctrl.minDimacsDecreaseRatio, dimacsOld))
    THEN "break"
    ELSE IF its = ctrl.maxIts THEN "limit" ELSE "continue"

\* (mutant) the gate does not look at the iteration count
GateDecisionNoLimit(met, dimacs, dimacsOld, its) ==
    IF met /\ RGe(dimacs, RMul(ctrl.minDimacsDecreaseRatio, dimacsOld))
    THEN "break"
    ELSE "continue"

\* (mutant) tolerances met end the loop whatever the DIMACS error
GateDecisionBreakWhenMet(met, dimacs, dimacsOld, its) ==
    IF met THEN "break"
    ELSE IF its = ctrl.maxIts THEN "limit" ELSE "continue"

\* the if/else-if ladder after metTolerances: break, RuntimeError or go on
GateDecision(met, dimacs, dimacsOld, its) ==
    IF met
    THEN IF RGe(dimacs, RMul(ctrl.minDimacsDecreaseRatio, dimacsOld))
         THEN "break"
         ELSE IF its = ctrl.maxIts THEN "break" ELSE "continue"
    ELSE IF its = ctrl.maxIts THEN "limit" ELSE "continue"

\* (mutant) a failure always ends in a normal return
DispositionAlwaysBreak(met) == "break"

\* (mutant) a failure with the tolerances unmet is ignored
DispositionContinue(met) == IF met THEN "break" ELSE "continue"

\* the body shared by every failure site:
\*   if( metTolerances ) break; else RuntimeError("Could not achieve tolerances");
Disposition(met) == IF met THEN "break" ELSE "fatal"

\* RegSolveInfo<Real> solveInfo;  (metRequestedTol of a fresh RegSolveInfo)
RegSolveInfoDefault == FALSE

\* (mutant) the second stage always runs
NeedSecondStageAlways(metRequestedTol) == TRUE

\* if( !solveInfo.metRequestedTol ) { RegularizedSolveAfter ... }
NeedSecondStage(metRequestedTol) == ~metRequestedTol

\* the two-stage solve of the sparse backends; firstMet and secondMet are what
\* reg_ldl::SolveAfter and reg_ldl::RegularizedSolveAfter would report
SparseSolve(kind, initialMet, firstMet, secondMet) ==
    LET afterFirst == IF ctrl.twoStage THEN firstMet ELSE initialMet
        runSecond  == NeedSecondStage(afterFirst)
    IN  [ kind   |-> kind,
          first  |-> IF ctrl.twoStage
                     THEN IF firstMet THEN "met" ELSE "unmet"
                     ELSE "skipped",
          second |-> IF runSecond
                     THEN IF secondMet THEN "met" ELSE "unmet"
                     ELSE "not_run" ]

\* the sizes n, m and k of the problem
NumX == Len(pre.c)
NumY == Len(pre.b)
NumZ == Len(pre.h)

\* TwoNormEstimate and HermitianTwoNormEstimate: an estimate of the two-norm,
\* here the largest absolute row sum
RECURSIVE AbsSumUpTo(_, _)
AbsSumUpTo(row, i) ==
    IF i = 0 THEN Zero ELSE RAdd(AbsSumUpTo(row, i - 1), Abs(row[i]))

RECURSIVE TwoNormEstimateUpTo(_, _)
TwoNormEstimateUpTo(M, i) ==
    IF i = 0 THEN Zero
    ELSE Max(TwoNormEstimateUpTo(M, i - 1), AbsSumUpTo(M[i], Len(M[i])))

TwoNormEstimate(M) == TwoNormEstimateUpTo(M, Len(M))

\* origTwoNormEst = twoNormEstA + twoNormEstG + twoNormEstQ + 1
OrigTwoNormEst(p) ==
    RAdd(RAdd(RAdd(TwoNormEstimate(p.A), TwoNormEstimate(p.G)),
              TwoNormEstimate(p.Q)), One)

\* the body of the loop that fills regLarge, for the row i (from 0)
RegLargeEntry(i) ==
    IF i < NumX THEN ctrl.xRegLarge
    ELSE IF i < NumX + NumY THEN RNeg(ctrl.yRegLarge)
    ELSE RNeg(ctrl.zRegLarge)

\* DistMultiVec: rows are dealt out in blocks of Height / commSize, the last
\* process taking the rest
Blocksize(height) == height \div Cardinality(Ranks)

FirstLocalRow(r, height) == r * Blocksize(height)

LocalHeight(r, height) ==
    IF r = Cardinality(Ranks) - 1
    THEN height - r * Blocksize(height)
    ELSE Blocksize(height)

GlobalRow(r, iLoc, height) == FirstLocalRow(r, height) + iLoc

RowOwner(i, height) ==
    CHOOSE r \in Ranks :
        /\ FirstLocalRow(r, height) <= i
        /\ i < FirstLocalRow(r, height) + LocalHeight(r, height)

\* (mutant) the local index is taken for the row
RegLargeRowLocal(r, iLoc, height) == iLoc

\* const Int i = regLarge.GlobalRow(iLoc);  (sequential: the loop index)
RegLargeRow(r, iLoc, height) ==
    IF IsDist THEN GlobalRow(r, iLoc, height) ELSE iLoc

\* what process r holds of regLarge after the loop and regLarge *= origTwoNormEst
RegLargeOn(r, p) ==
    LET height == NumX + NumY + NumZ
    IN  [iLoc \in 1..LocalHeight(r, height) |->
            RMul(RegLargeEntry(RegLargeRow(r, iLoc - 1, height)),
                 OrigTwoNormEst(p))]

\* regLarge as a whole: row i from the process that owns it
RegLarge(p) ==
    LET height == NumX + NumY + NumZ
    IN  [i \in 1..height |->
            LET r == RowOwner(i - 1, height)
            IN  RegLargeOn(r, p)[i - FirstLocalRow(r, height)]]

\* StaticKKT: the diagonal of JStatic, Q and the small regularization
StaticKKT(p) ==
    [i \in 1..(NumX + NumY + NumZ) |->
        IF i <= NumX THEN RAdd(p.Q[i][i], ctrl.xRegSmall)
        ELSE IF i <= NumX + NumY THEN RNeg(ctrl.yRegSmall)
        ELSE RNeg(ctrl.zRegSmall)]

\* FinishKKT( m, n, s, z, JOrig ): -s_i/z_i on the last k rows
FinishKKT(sv, zv, JDiag) ==
    [i \in 1..Len(JDiag) |->
        IF i <= NumX + NumY THEN JDiag[i]
        ELSE RSub(JDiag[i], RDiv(sv[i - NumX - NumY], zv[i - NumX - NumY]))]

\* UpdateDiagonal( J, Real(1), regLarge )
UpdateDiagonal(JDiag, alpha, dv) ==
    [i \in 1..Len(JDiag) |-> RAdd(JDiag[i], RMul(alpha, dv[i]))]

\* (mutant) JOrig carries the large regularization too
BuildKKTRegOrig(JStatic, sv, zv, reg) ==
    LET JOrig == UpdateDiagonal(FinishKKT(sv, zv, JStatic), One, reg)
    IN  [JStatic |-> JStatic, JOrig |-> JOrig, J |-> JOrig]

\* JOrig = JStatic; FinishKKT( m, n, s, z, JOrig ); J = JOrig;
\* UpdateDiagonal( J, Real(1), regLarge );
BuildKKT(JStatic, sv, zv, reg) ==
    LET JOrig == FinishKKT(sv, zv, JStatic)
    IN  [JStatic |-> JStatic, JOrig |-> JOrig,
         J |-> UpdateDiagonal(JOrig, One, reg)]

\* the handle after Initialize( JStatic, regLarge, ..., sparseLDLFact, ... )
\* before the loop: analysed unless a full warm start was given
InitializeHandle ==
    IF IsSparse /\ ~(ctrl.primalInit /\ ctrl.dualInit)
    THEN [NoHandle EXCEPT !.analysed = "util"]
    ELSE NoHandle

\* (mutant) the symbolic analysis is redone in every first iteration
InitHandleFirstIteration(its) == its = 0

\* if( numIts == 0 && ctrl.primalInit && ctrl.dualInit )
InitHandle(its) == its = 0 /\ ctrl.primalInit /\ ctrl.dualInit

\* the calls that factor J: LDL, or Initialize / ChangeNonzeroValues and Factor
FactorCalls(its) ==
    IF IsSparse
    THEN << IF InitHandle(its) THEN "Initialize" ELSE "ChangeNonzeroValues",
            "Factor" >>
    ELSE << "LDL" >>

\* sparseLDLFact after one call on it, made in iteration its
HandleAfter(h, call, its) ==
    CASE call = "Initialize" ->
           [h EXCEPT !.analysed = "loop", !.initCalls = @ + 1, !.values = its]
      [] call = "ChangeNonzeroValues" -> [h EXCEPT !.values = its]
      [] call = "Factor" -> [h EXCEPT !.factored = h.values]
      [] OTHER -> h

RECURSIVE HandleAfterAll(_, _, _)
HandleAfterAll(h, made, its) ==
    IF made = << >> THEN h
    ELSE HandleAfterAll(HandleAfter(h, Head(made), its), Tail(made), its)

\* the calls one solve makes
SolveCalls(info) ==
    IF IsSparse
    THEN (IF info.first # "skipped" THEN << "SolveAfter" >> ELSE << >>)
         \o (IF info.second # "not_run"
             THEN << "RegularizedSolveAfter" >> ELSE << >>)
    ELSE << "SolveAfter" >>

\* (mutant) J is factored again for the combined system
BetweenSolvesRefactor == << "Factor" >>

\* the calls on J and its factorization between ExpandSolution of the affine
\* direction and the combined solve: none
BetweenSolves == << >>

\* what reg_ldl::SolveAfter, which takes d as in/out, can leave in d when it
\* misses the tolerance: the right-hand side, or its own result
FirstStageLeaves == {"kktrhs", "first_stage"}

\* what d holds when RegularizedSolveAfter is called: nothing is assigned
\* to d between the two calls
SecondStageRhs(info, left) ==
    IF info.second = "not_run" THEN "not_run"
    ELSE IF info.first = "unmet" THEN left
    ELSE "kktrhs"

\* (mutant) the step is not backed off by maxStepRatio
FinalStepNoRatio(alpha) == Min(alpha, One)

\* alphaPri = Min(ctrl.maxStepRatio*alphaPri,Real(1));
FinalStep(alpha) == Min(RMul(ctrl.maxStepRatio, alpha), One)

\* (mutant) the common step is the larger of the two
SameStepMax(aPri, aDual) ==
    IF ctrl.forceSameStep THEN Max(aPri, aDual) ELSE aPri

\* if( ctrl.forceSameStep ) alphaPri = alphaDual = Min(alphaPri,alphaDual);
SameStep(aPri, aDual) ==
    IF ctrl.forceSameStep THEN Min(aPri, aDual) ELSE aPri

\* (mutant) the warm start is scaled in a copy, the caller's vectors are kept
TransformCopy(D, it) == it

\* the entry scaling of a warm start:
\*   DiagonalScale( dCol, x ); DiagonalSolve( dRowG, s );
\*   DiagonalScale( dRowA, y ); DiagonalScale( dRowG, z );
Transform(D, it) ==
    << DiagonalScale(D.dCol, it[1]), DiagonalScale(D.dRowA, it[2]),
       DiagonalScale(D.dRowG, it[3]), DiagonalSolve(D.dRowG, it[4]) >>

\* (mutant) s is solved by dRowG on exit as it was on entry
UntransformSolveS(D, it) ==
    << DiagonalSolve(D.dCol, it[1]), DiagonalSolve(D.dRowA, it[2]),
       DiagonalSolve(D.dRowG, it[3]), DiagonalSolve(D.dRowG, it[4]) >>

\* the exit scaling:
\*   DiagonalSolve( dCol, x ); DiagonalSolve( dRowA, y );
\*   DiagonalSolve( dRowG, z ); DiagonalScale( dRowG, s );
Untransform(D, it) ==
    << DiagonalSolve(D.dCol, it[1]), DiagonalSolve(D.dRowA, it[2]),
       DiagonalSolve(D.dRowG, it[3]), DiagonalScale(D.dRowG, it[4]) >>

\* (mutant) the driver's Q, A, G, b, c, h alias the caller's
DataStorageShared == "caller"

\* auto A = APre; ...: the driver works on copies of the problem data
DataStorage == "copy"

\* (mutant) a decision taken under if( commRank == 0 )
OnRankZeroOnly(r, d) == IF r = 0 THEN d ELSE "continue"

\* no decision of the loop is under a commRank guard: every process of the
\* grid evaluates it, on reduction results that are the same on all of them
OnRank(r, d) == d

\* (mutant) the shift has the wrong sign
ComplementarityRHSPlus(rmuAff, sig, muIt, dsAff, dzAff) ==
    LET shifted == Shift(rmuAff, RMul(sig, muIt))
        prod    == DiagonalScale(dsAff, dzAff)
    IN  IF ctrl.mehrotra
        THEN [i \in 1..Len(shifted) |-> RAdd(shifted[i], prod[i])]
        ELSE shifted

\* the complementarity residual of the combined system:
\*   Shift( rmu, -sigma*mu ); if( ctrl.mehrotra ) rmu += dsAff o dzAff;
ComplementarityRHS(rmuAff, sig, muIt, dsAff, dzAff) ==
    LET shifted == Shift(rmuAff, RNeg(RMul(sig, muIt)))
        prod    == DiagonalScale(dsAff, dzAff)
    IN  IF ctrl.mehrotra
        THEN [i \in 1..Len(shifted) |-> RAdd(shifted[i], prod[i])]
        ELSE shifted

\* what the solver leaves in d for the combined system, with the ds that
\* ExpandSolution derives from it
Solutions == IF IsBox(prob) THEN BoxDirections ELSE Directions

\* (mutant) ds keeps the temporary
ExpandSolutionKeepDs(sol, old) ==
    [dx |-> sol.dx, dy |-> sol.dy, dz |-> sol.dz, ds |-> old.ds]

\* ExpandSolution( m, n, d, rmu, s, z, dx, dy, dz, ds ): all four are outputs
ExpandSolution(sol, old) ==
    [dx |-> sol.dx, dy |-> sol.dy, dz |-> sol.dz, ds |-> sol.ds]

\* (mutant) one zero step length is enough
ZeroStepEither(aPri, aDual) == REq(aPri, Zero) \/ REq(aDual, Zero)

\* if( alphaPri == Real(0) && alphaDual == Real(0) )
ZeroStep(aPri, aDual) == REq(aPri, Zero) /\ REq(aDual, Zero)

-----------------------------------------------------------------------------
(* The calls of the distributed overloads, statement by statement: the line,
   the call, whether it communicates, the options and the progress of the
   step it depends on, and whether it stands under if( commRank == 0 ) *)

St(line, call, kind, needs, rank0) ==
    [line |-> line, call |-> call, kind |-> kind, needs |-> needs,
     rank0 |-> rank0]

\* the options of ctrl a statement can depend on
CtrlFlags == {"print", "time", "checkResiduals", "outerEquil", "primalInit",
              "dualInit", "twoStage", "mehrotra"}

\* dense distributed overload, lines 483-836
DenseDistStmts(stage) ==
    CASE stage = "entry" ->
           << St(486, "timer.Start", "timer", {"outerEquil", "time"}, TRUE),
              St(487, "StackedRuizEquil", "collective", {"outerEquil"}, FALSE),
              St(489, "Output", "output", {"outerEquil", "time"}, TRUE),
              St(490, "DiagonalSolve", "collective", {"outerEquil"}, FALSE),
              St(491, "DiagonalSolve", "collective", {"outerEquil"}, FALSE),
              St(492, "DiagonalSolve", "collective", {"outerEquil"}, FALSE),
              St(495, "DiagonalSolve", "collective", {"outerEquil"}, FALSE),
              St(496, "DiagonalSolve", "collective", {"outerEquil"}, FALSE),
              St(500, "DiagonalScale", "collective",
                 {"outerEquil", "primalInit"}, FALSE),
              St(501, "DiagonalSolve", "collective",
                 {"outerEquil", "primalInit"}, FALSE),
              St(505, "DiagonalScale", "collective",
                 {"outerEquil", "dualInit"}, FALSE),
              St(506, "DiagonalScale", "collective",
                 {"outerEquil", "dualInit"}, FALSE),
              St(516, "Nrm2", "collective", {}, FALSE),
              St(517, "Nrm2", "collective", {}, FALSE),
              St(518, "Nrm2", "collective", {}, FALSE),
              St(521, "HermitianOneNorm", "collective", {"print"}, FALSE),
              St(522, "OneNorm", "collective", {"print"}, FALSE),
              St(523, "OneNorm", "collective", {"print"}, FALSE),
              St(526, "Output", "output", {"print"}, TRUE),
              St(536, "timer.Start", "timer", {"time"}, TRUE),
              St(537, "Initialize", "collective", {}, FALSE),
              St(541, "Output", "output", {"time"}, TRUE) >>
      [] stage = "cone" ->
           << St(563, "NumOutside", "collective", {}, FALSE),
              St(564, "NumOutside", "collective", {}, FALSE) >>
      [] stage = "gate" ->
           << St(572, "Dot", "collective", {}, FALSE),
              St(581, "Hemv", "collective", {}, FALSE),
              St(582, "Dot", "collective", {}, FALSE),
              St(583, "Dot", "collective", {}, FALSE),
              St(584, "Dot", "collective", {}, FALSE),
              St(584, "Dot", "collective", {}, FALSE),
              St(594, "Gemv", "collective", {}, FALSE),
              St(595, "Nrm2", "collective", {}, FALSE),
              St(601, "Hemv", "collective", {}, FALSE),
              St(602, "Gemv", "collective", {}, FALSE),
              St(603, "Gemv", "collective", {}, FALSE),
              St(604, "Nrm2", "collective", {}, FALSE),
              St(610, "Gemv", "collective", {}, FALSE),
              St(612, "Nrm2", "collective", {}, FALSE),
              St(622, "Nrm2", "collective", {"print"}, FALSE),
              St(623, "Nrm2", "collective", {"print"}, FALSE),
              St(624, "Nrm2", "collective", {"print"}, FALSE),
              St(625, "Nrm2", "collective", {"print"}, FALSE),
              St(627, "Output", "output", {"print"}, TRUE) >>
      [] stage = "factor" ->
           << St(672, "DiagonalScale", "collective", {}, FALSE),
              St(676, "KKT", "collective", {}, FALSE),
              St(677, "KKTRHS", "collective", {}, FALSE),
              St(684, "timer.Start", "timer", {"time"}, TRUE),
              St(685, "LDL", "collective", {}, FALSE),
              St(688, "Output", "output", {"time", "ok"}, TRUE),
              St(689, "timer.Start", "timer", {"time", "ok"}, TRUE) >>
      [] stage = "affine" ->
           << St(691, "ldl::SolveAfter", "collective", {}, FALSE),
              St(693, "Output", "output", {"time", "ok"}, TRUE),
              St(707, "ExpandSolution", "collective", {"ok"}, FALSE),
              St(712, "Gemv", "collective",
                 {"checkResiduals", "print", "ok"}, FALSE),
              St(713, "Nrm2", "collective",
                 {"checkResiduals", "print", "ok"}, FALSE),
              St(716, "Hemv", "collective",
                 {"checkResiduals", "print", "ok"}, FALSE),
              St(717, "Gemv", "collective",
                 {"checkResiduals", "print", "ok"}, FALSE),
              St(718, "Gemv", "collective",
                 {"checkResiduals", "print", "ok"}, FALSE),
              St(719, "Nrm2", "collective",
                 {"checkResiduals", "print", "ok"}, FALSE),
              St(722, "Gemv", "collective",
                 {"checkResiduals", "print", "ok"}, FALSE),
              St(724, "Nrm2", "collective",
                 {"checkResiduals", "print", "ok"}, FALSE),
              St(729, "Output", "output",
                 {"checkResiduals", "print", "ok"}, TRUE) >>
      [] stage = "centrality" ->
           << St(740, "MaxStep", "collective", {}, FALSE),
              St(741, "MaxStep", "collective", {}, FALSE),
              St(745, "Output", "output", {"print"}, TRUE),
              St(752, "Dot", "collective", {}, FALSE),
              St(754, "Output", "output", {"print"}, TRUE),
              St(758, "Output", "output", {"print"}, TRUE),
              St(769, "DiagonalScale", "collective", {"mehrotra"}, FALSE) >>
      [] stage = "combined" ->
           << St(775, "KKTRHS", "collective", {}, FALSE),
              St(781, "timer.Start", "timer", {"time"}, TRUE),
              St(782, "ldl::SolveAfter", "collective", {}, FALSE),
              St(784, "Output", "output", {"time", "ok"}, TRUE),
              St(798, "ExpandSolution", "collective", {"ok"}, FALSE) >>
      [] stage = "update" ->
           << St(803, "MaxStep", "collective", {}, FALSE),
              St(804, "MaxStep", "collective", {}, FALSE),
              St(810, "Output", "output", {"print"}, TRUE) >>
      [] stage = "return" ->
           << St(832, "DiagonalSolve", "collective", {"outerEquil"}, FALSE),
              St(833, "DiagonalSolve", "collective", {"outerEquil"}, FALSE),
              St(834, "DiagonalSolve", "collective", {"outerEquil"}, FALSE),
              St(835, "DiagonalScale", "collective", {"outerEquil"}, FALSE) >>
      [] OTHER -> << >>

\* sparse distributed overload, lines 1303-1755
SparseDistStmts(stage) ==
    CASE stage = "entry" ->
           << St(1306, "timer.Start", "timer", {"outerEquil", "time"}, TRUE),
              St(1307, "StackedRuizEquil", "collective", {"outerEquil"}, FALSE),
              St(1309, "Output", "output", {"outerEquil", "time"}, TRUE),
              St(1311, "DiagonalSolve", "collective", {"outerEquil"}, FALSE),
              St(1312, "DiagonalSolve", "collective", {"outerEquil"}, FALSE),
              St(1313, "DiagonalSolve", "collective", {"outerEquil"}, FALSE),
              St(1316, "DiagonalSolve", "collective", {"outerEquil"}, FALSE),
              St(1317, "DiagonalSolve", "collective", {"outerEquil"}, FALSE),
              St(1321, "DiagonalScale", "collective",
                 {"outerEquil", "primalInit"}, FALSE),
              St(1322, "DiagonalSolve", "collective",
                 {"outerEquil", "primalInit"}, FALSE),
              St(1326, "DiagonalScale", "collective",
                 {"outerEquil", "dualInit"}, FALSE),
              St(1327, "DiagonalScale", "collective",
                 {"outerEquil", "dualInit"}, FALSE),
              St(1337, "Nrm2", "collective", {}, FALSE),
              St(1338, "Nrm2", "collective", {}, FALSE),
              St(1339, "Nrm2", "collective", {}, FALSE),
              St(1341, "HermitianTwoNormEstimate", "collective", {}, FALSE),
              St(1342, "TwoNormEstimate", "collective", {}, FALSE),
              St(1343, "TwoNormEstimate", "collective", {}, FALSE),
              St(1347, "Imbalance", "collective", {"print"}, FALSE),
              St(1348, "Imbalance", "collective", {"print"}, FALSE),
              St(1349, "Imbalance", "collective", {"print"}, FALSE),
              St(1352, "Output", "output", {"print"}, TRUE),
              St(1381, "StaticKKT", "collective", {}, FALSE),
              St(1384, "InitializeMultMeta", "collective", {}, FALSE),
              St(1387, "Imbalance", "collective", {"print"}, FALSE),
              St(1389, "Output", "output", {"print"}, TRUE),
              St(1393, "timer.Start", "timer", {"time"}, TRUE),
              St(1395, "Initialize", "collective", {}, FALSE),
              St(1400, "Output", "output", {"time"}, TRUE) >>
      [] stage = "cone" ->
           << St(1416, "iterTimer.Start", "timer", {"time"}, TRUE),
              St(1420, "NumOutside", "collective", {}, FALSE),
              St(1421, "NumOutside", "collective", {}, FALSE) >>
      [] stage = "gate" ->
           << St(1429, "Dot", "collective", {}, FALSE),
              St(1432, "MaxNorm", "collective", {}, FALSE),
              St(1441, "Multiply", "collective", {}, FALSE),
              St(1442, "Dot", "collective", {}, FALSE),
              St(1443, "Dot", "collective", {}, FALSE),
              St(1444, "Dot", "collective", {}, FALSE),
              St(1444, "Dot", "collective", {}, FALSE),
              St(1454, "Multiply", "collective", {}, FALSE),
              St(1455, "Nrm2", "collective", {}, FALSE),
              St(1461, "Multiply", "collective", {}, FALSE),
              St(1462, "Multiply", "collective", {}, FALSE),
              St(1463, "Multiply", "collective", {}, FALSE),
              St(1464, "Nrm2", "collective", {}, FALSE),
              St(1470, "Multiply", "collective", {}, FALSE),
              St(1472, "Nrm2", "collective", {}, FALSE),
              St(1482, "Nrm2", "collective", {"print"}, FALSE),
              St(1483, "Nrm2", "collective", {"print"}, FALSE),
              St(1484, "Nrm2", "collective", {"print"}, FALSE),
              St(1485, "Nrm2", "collective", {"print"}, FALSE),
              St(1487, "Output", "output", {"print"}, TRUE) >>
      [] stage = "factor" ->
           << St(1539, "FinishKKT", "collective", {}, FALSE),
              St(1540, "KKTRHS", "collective", {}, FALSE),
              St(1547, "UpdateDiagonal", "collective", {}, FALSE),
              St(1567, "sparseLDLFact.Initialize", "collective",
                 {"init"}, FALSE),
              St(1571, "sparseLDLFact.ChangeNonzeroValues", "collective",
                 {"change"}, FALSE),
              St(1575, "timer.Start", "timer", {"time"}, TRUE),
              St(1577, "sparseLDLFact.Factor", "collective", {}, FALSE),
              St(1581, "Output", "output", {"time", "ok"}, TRUE) >>
      [] stage = "affine" ->
           << St(1584, "timer.Start", "timer", {"time"}, TRUE),
              St(1588, "reg_ldl::SolveAfter", "collective", {"first"}, FALSE),
              St(1593, "reg_ldl::RegularizedSolveAfter", "collective",
                 {"second"}, FALSE),
              St(1612, "Output", "output", {"time", "ok"}, TRUE),
              St(1613, "ExpandSolution", "collective", {"ok"}, FALSE),
              St(1618, "Multiply", "collective",
                 {"checkResiduals", "print", "ok"}, FALSE),
              St(1619, "Nrm2", "collective",
                 {"checkResiduals", "print", "ok"}, FALSE),
              St(1622, "Multiply", "collective",
                 {"checkResiduals", "print", "ok"}, FALSE),
              St(1623, "Multiply", "collective",
                 {"checkResiduals", "print", "ok"}, FALSE),
              St(1624, "Multiply", "collective",
                 {"checkResiduals", "print", "ok"}, FALSE),
              St(1625, "Nrm2", "collective",
                 {"checkResiduals", "print", "ok"}, FALSE),
              St(1628, "Multiply", "collective",
                 {"checkResiduals", "print", "ok"}, FALSE),
              St(1630, "Nrm2", "collective",
                 {"checkResiduals", "print", "ok"}, FALSE),
              St(1637, "Output", "output",
                 {"checkResiduals", "print", "ok"}, TRUE) >>
      [] stage = "centrality" ->
           << St(1648, "MaxStep", "collective", {}, FALSE),
              St(1649, "MaxStep", "collective", {}, FALSE),
              St(1653, "Output", "output", {"print"}, TRUE),
              St(1660, "Dot", "collective", {}, FALSE),
              St(1662, "Output", "output", {"print"}, TRUE),
              St(1666, "Output", "output", {"print"}, TRUE),
              St(1677, "DiagonalScale", "collective", {"mehrotra"}, FALSE) >>
      [] stage = "combined" ->
           << St(1683, "KKTRHS", "collective", {}, FALSE),
              St(1687, "timer.Start", "timer", {"time"}, TRUE),
              St(1691, "reg_ldl::SolveAfter", "collective", {"first"}, FALSE),
              St(1696, "reg_ldl::RegularizedSolveAfter", "collective",
                 {"second"}, FALSE),
              St(1715, "Output", "output", {"time", "ok"}, TRUE),
              St(1716, "ExpandSolution", "collective", {"ok"}, FALSE) >>
      [] stage = "update" ->
           << St(1720, "MaxStep", "collective", {}, FALSE),
              St(1721, "MaxStep", "collective", {}, FALSE),
              St(1727, "Output", "output", {"print"}, TRUE),
              St(1733, "Output", "output", {"time"}, TRUE) >>
      [] stage = "return" ->
           << St(1751, "DiagonalSolve", "collective", {"outerEquil"}, FALSE),
              St(1752, "DiagonalSolve", "collective", {"outerEquil"}, FALSE),
              St(1753, "DiagonalSolve", "collective", {"outerEquil"}, FALSE),
              St(1754, "DiagonalScale", "collective", {"outerEquil"}, FALSE) >>
      [] OTHER -> << >>

\* the statements of one step of the overload in use; the local overloads
\* have no process grid
Stmts(stage) ==
    IF backend = "dense_dist" THEN DenseDistStmts(stage)
    ELSE IF backend = "sparse_dist" THEN SparseDistStmts(stage)
    ELSE << >>

\* (mutant) if( ctrl.print && commRank == 0 ) around a whole print block
RunsOnPrintRankZero(st, r, marks) ==
    /\ \A f \in st.needs : IF f \in CtrlFlags THEN ctrl[f] ELSE f \in marks
    /\ (st.rank0 \/ "print" \in st.needs) => r = 0

\* process r executes the statement: its options are set, the step got as
\* far, and it is process 0 if the statement is under if( commRank == 0 )
RunsOn(st, r, marks) ==
    /\ \A f \in st.needs : IF f \in CtrlFlags THEN ctrl[f] ELSE f \in marks
    /\ st.rank0 => r = 0

\* the calls process r makes in one step
CallsOn(stmts, r, marks) ==
    LET ran == SelectSeq(stmts, LAMBDA st : RunsOn(st, r, marks))
    IN  [i \in 1..Len(ran) |->
            [line |-> ran[i].line, call |-> ran[i].call, kind |-> ran[i].kind]]

CallsOf(stage, marks) == [r \in Ranks |-> CallsOn(Stmts(stage), r, marks)]

\* how far a solve got: the stages that ran and whether it succeeded
SolveMarks(info, ok) ==
    (IF info.first # "skipped" THEN {"first"} ELSE {})
        \cup (IF info.second # "not_run" THEN {"second"} ELSE {})
        \cup (IF ok THEN {"ok"} ELSE {})

-----------------------------------------------------------------------------
(* The steps of the driver *)

cfgVars  == << backend, ctrl, given >>
dataVars == << pre, prob, equil >>
gateVars == << evalAt, conv, infeasError, dimacsError, dimacsErrorOld,
               relObjGap, relCompGap, metTolerances, mu >>
affVars  == << rmu, dirAff, alphaAffPri, alphaAffDual, muAff, sigma >>
stepVars == << dir, alphaPri, alphaDual >>
ldlVars  == << ops, handle, secondRhs, regLarge, kkt >>

\* leave the loop body in the way d says; "continue" goes on to `next`
Leave(d, next) ==
    /\ pc' = CASE d = "break" -> "after_loop"
               [] d \in {"fatal", "limit", "throw", "logic"} -> "done"
               [] OTHER -> next
    /\ outcome' = CASE d = "fatal" -> "fatal"
                    [] d = "limit" -> "iteration_limit"
                    [] d = "throw" -> "exception"
                    [] d = "logic" -> "logic_error"
                    [] OTHER -> outcome
    /\ branches' = [r \in Ranks |-> OnRank(r, d)]

\* the copies of the problem data, the outer equilibration and Initialize
Entry ==
    /\ pc = "entry"
    /\ \E D \in (IF ctrl.outerEquil THEN Scalings(pre) ELSE {OnesScaling(pre)}),
          st \in DefaultStarts(pre) :
         LET scaled == IF ctrl.outerEquil THEN Equilibrate(pre, D) ELSE pre
             in  == IF ctrl.outerEquil THEN Transform(D, iterates) ELSE iterates
             xIn == in[1]
             yIn == in[2]
             zIn == in[3]
             sIn == in[4]
         IN  /\ prob' = scaled
             /\ pre' = IF DataStorage = "copy" THEN pre ELSE scaled
             /\ equil' = D
             /\ x' = IF ctrl.primalInit THEN xIn ELSE st.x
             /\ s' = IF ctrl.primalInit THEN sIn ELSE st.s
             /\ y' = IF ctrl.dualInit THEN yIn ELSE st.y
             /\ z' = IF ctrl.dualInit THEN zIn ELSE st.z
             /\ regLarge' = IF IsSparse THEN RegLarge(scaled) ELSE << >>
             /\ kkt' = IF IsSparse
                       THEN [NoKKT EXCEPT !.JStatic = StaticKKT(scaled)]
                       ELSE NoKKT
    /\ handle' = InitializeHandle
    /\ calls' = CallsOf("entry", {})
    /\ pc' = "loop"
    /\ UNCHANGED << normVars, cfgVars, outcome, errArgs, failure, numIts, gateVars,
                    affVars, stepVars, branches, lastSolve, ops, secondRhs,
                    numGate, numFactor, numUpdates >>

\* for( Int numIts=0; numIts<=ctrl.maxIts; ++numIts )
LoopTest ==
    /\ pc = "loop"
    /\ pc' = IF LoopCond(numIts) THEN "top" ELSE "after_loop"
    /\ branches' = [r \in Ranks |->
                      OnRank(r, IF LoopCond(numIts) THEN "enter" ELSE "exit")]
    /\ calls' = CallsOf("loop", {})
    /\ UNCHANGED << normVars, cfgVars, dataVars, outcome, errArgs, failure, numIts,
                    iterates, gateVars, affVars, stepVars, lastSolve, ldlVars,
                    numGate,
                    numFactor, numUpdates >>

\* Ensure that s and z are in the cone
ConeCheck ==
    /\ pc = "top"
    /\ LET sNumNonPos == NumOutside(s)
           zNumNonPos == NumOutside(z)
       IN  IF ConeViolated(sNumNonPos, zNumNonPos)
           THEN /\ Leave("logic", "gate")
                /\ errArgs' = << sNumNonPos, zNumNonPos >>
           ELSE /\ Leave("continue", "gate")
                /\ UNCHANGED errArgs
    /\ calls' = CallsOf("cone", {})
    /\ UNCHANGED << normVars, cfgVars, dataVars, failure, numIts, iterates, gateVars,
                    affVars, stepVars, lastSolve, ldlVars, numGate, numFactor,
                    numUpdates >>

\* duality measure, residuals, gaps and the convergence gate
Gate ==
    /\ pc = "gate"
    /\ \E e \in Evaluations :
         LET dualProd  == Dot(s, z)
             relObj    == RelativeObjectiveGap(e.primObj, e.dualObj, dualProd)
             relComp   == RelativeComplementarityGap(e.primObj, e.dualObj, dualProd)
             infeas    == InfeasError(e.rbConv, e.rcConv, e.rhConv)
             dimacs    == DimacsError(infeas, relObj, relComp)
             met       == MetTolerances(infeas, relComp, relObj)
             d         == GateDecision(met, dimacs, dimacsError, numIts)
         IN  /\ conv' = e
             /\ evalAt' = iterates
             /\ mu' = RDiv(dualProd, Rat(Len(prob.h), 1))
             /\ relObjGap' = relObj
             /\ relCompGap' = relComp
             /\ dimacsErrorOld' = dimacsError
             /\ infeasError' = infeas
             /\ dimacsError' = dimacs
             /\ metTolerances' = met
             /\ Leave(d, "factor")
             /\ errArgs' = IF d = "limit" THEN << ctrl.maxIts >> ELSE errArgs
    /\ numGate' = numGate + 1
    /\ calls' = CallsOf("gate", {})
    /\ UNCHANGED << normVars, cfgVars, dataVars, failure, numIts, iterates, affVars,
                    stepVars, lastSolve, ldlVars, numFactor, numUpdates >>

\* r_mu := s o z, KKT, KKTRHS and the factorization of J.  Dense: LDL inside
\* the try block.  Sparse: Initialize or ChangeNonzeroValues, then Factor,
\* with no handler.
Factor ==
    /\ pc = "factor"
    /\ rmu' = DiagonalScale(s, z)
    /\ kkt' = IF IsSparse THEN BuildKKT(kkt.JStatic, s, z, regLarge) ELSE kkt
    /\ ops' = FactorCalls(numIts)
    /\ handle' = IF IsSparse
                 THEN HandleAfterAll(handle, FactorCalls(numIts), numIts)
                 ELSE handle
    /\ \E ok \in BOOLEAN :
         /\ calls' = CallsOf("factor",
                             (IF ok THEN {"ok"} ELSE {})
                               \cup (IF InitHandle(numIts) THEN {"init"}
                                                           ELSE {"change"}))
         /\ IF ok
            THEN /\ Leave("continue", "affine")
                 /\ UNCHANGED failure
            ELSE /\ failure' = "factor"
                 /\ IF IsSparse
                    THEN Leave("throw", "affine")
                    ELSE Leave(Disposition(metTolerances), "affine")
    /\ numFactor' = numFactor + 1
    /\ UNCHANGED << normVars, cfgVars, dataVars, errArgs, numIts, iterates, gateVars,
                    dirAff, alphaAffPri, alphaAffDual, muAff, sigma, stepVars,
                    lastSolve, secondRhs, regLarge, numGate, numUpdates >>

\* the solve for the affine direction and ExpandSolution.  Dense:
\* ldl::SolveAfter inside the same try block as LDL.  Sparse: the two-stage
\* solve.
AffineSolve ==
    /\ pc = "affine"
    /\ IF IsSparse
       THEN \E firstMet \in BOOLEAN, secondMet \in BOOLEAN,
               left \in FirstStageLeaves :
              LET info == SparseSolve("affine", RegSolveInfoDefault,
                                      firstMet, secondMet)
              IN  /\ lastSolve' = info
                  /\ ops' = ops \o SolveCalls(info)
                  /\ secondRhs' = SecondStageRhs(info, left)
                  /\ calls' = CallsOf("affine",
                                      SolveMarks(info, info.second # "unmet"))
                  /\ IF info.second = "unmet"
                     THEN /\ failure' = "affine"
                          /\ Leave(Disposition(metTolerances), "centrality")
                          /\ UNCHANGED dirAff
                     ELSE /\ Leave("continue", "centrality")
                          /\ dirAff' \in AffDirections
                          /\ UNCHANGED failure
       ELSE \E ok \in BOOLEAN :
              /\ UNCHANGED << lastSolve, secondRhs >>
              /\ ops' = ops \o SolveCalls(NoSolve)
              /\ calls' = CallsOf("affine", SolveMarks(NoSolve, ok))
              /\ IF ok
                 THEN /\ Leave("continue", "centrality")
                      /\ dirAff' \in AffDirections
                      /\ UNCHANGED failure
                 ELSE /\ failure' = "affine"
                      /\ Leave(Disposition(metTolerances), "centrality")
                      /\ UNCHANGED dirAff
    /\ UNCHANGED << normVars, cfgVars, dataVars, errArgs, numIts, iterates, gateVars,
                    rmu, alphaAffPri, alphaAffDual, muAff, sigma, stepVars,
                    handle, regLarge, kkt, numGate, numFactor, numUpdates >>

\* Compute a centrality parameter, then the right-hand side of the combined
\* solve: Shift( rmu, -sigma*mu ) and, with ctrl.mehrotra, rmu += dsAff o dzAff.
\* dz and ds are used as temporaries.
Centrality ==
    /\ pc = "centrality"
    /\ \E sig \in Sigmas :
         LET aPri0  == MaxStep(s, dirAff.ds, One)
             aDual0 == MaxStep(z, dirAff.dz, One)
             aPri   == SameStep(aPri0, aDual0)
             aDual  == IF ctrl.forceSameStep THEN aPri ELSE aDual0
             dsTmp  == Axpy(aPri, dirAff.ds, s)
             dzTmp  == Axpy(aDual, dirAff.dz, z)
             degree == Rat(Len(prob.h), 1)
             dzProd == DiagonalScale(dirAff.ds, dirAff.dz)
         IN  /\ alphaAffPri' = aPri
             /\ alphaAffDual' = aDual
             /\ muAff' = RDiv(Dot(dsTmp, dzTmp), degree)
             /\ sigma' = sig
             /\ rmu' = ComplementarityRHS(rmu, sig, mu, dirAff.ds, dirAff.dz)
             /\ dir' = [dir EXCEPT !.ds = dsTmp,
                                   !.dz = IF ctrl.mehrotra THEN dzProd ELSE dzTmp]
    /\ pc' = "combined"
    /\ calls' = CallsOf("centrality", {})
    /\ UNCHANGED << normVars, cfgVars, dataVars, outcome, errArgs, failure, numIts,
                    iterates, gateVars, dirAff, alphaPri, alphaDual, branches,
                    lastSolve, ldlVars, numGate, numFactor, numUpdates >>

\* KKTRHS, the solve for the combined direction and ExpandSolution.  Dense
\* local: ldl::SolveAfter with no handler.  Dense distributed: inside
\* try/catch.  Sparse: the two-stage solve, after
\* solveInfo.metRequestedTol = false.
CombinedSolve ==
    /\ pc = "combined"
    /\ IF IsSparse
       THEN \E firstMet \in BOOLEAN, secondMet \in BOOLEAN,
               left \in FirstStageLeaves :
              LET info == SparseSolve("combined", FALSE, firstMet, secondMet)
              IN  /\ lastSolve' = info
                  /\ ops' = ops \o BetweenSolves \o SolveCalls(info)
                  /\ secondRhs' = SecondStageRhs(info, left)
                  /\ calls' = CallsOf("combined",
                                      SolveMarks(info, info.second # "unmet"))
                  /\ IF info.second = "unmet"
                     THEN /\ failure' = "combined"
                          /\ Leave(Disposition(metTolerances), "update")
                          /\ UNCHANGED dir
                     ELSE /\ Leave("continue", "update")
                          /\ \E sol \in Solutions : dir' = ExpandSolution(sol, dir)
                          /\ UNCHANGED failure
       ELSE \E ok \in BOOLEAN :
              /\ UNCHANGED << lastSolve, secondRhs >>
              /\ ops' = ops \o BetweenSolves \o SolveCalls(NoSolve)
              /\ calls' = CallsOf("combined", SolveMarks(NoSolve, ok))
              /\ IF ok
                 THEN /\ Leave("continue", "update")
                      /\ \E sol \in Solutions : dir' = ExpandSolution(sol, dir)
                      /\ UNCHANGED failure
                 ELSE /\ failure' = "combined"
                      /\ UNCHANGED dir
                      /\ IF backend = "dense_local"
                         THEN Leave("throw", "update")
                         ELSE Leave(Disposition(metTolerances), "update")
    /\ UNCHANGED << normVars, cfgVars, dataVars, errArgs, numIts, iterates, gateVars,
                    affVars, alphaPri, alphaDual, handle, regLarge, kkt,
                    numGate, numFactor, numUpdates >>

\* Update the current estimates, then the zero-step check
Update ==
    /\ pc = "update"
    /\ LET upper == RDiv(One, ctrl.maxStepRatio)
           aPri0  == FinalStep(MaxStep(s, dir.ds, upper))
           aDual0 == FinalStep(MaxStep(z, dir.dz, upper))
           aPri   == SameStep(aPri0, aDual0)
           aDual  == IF ctrl.forceSameStep THEN aPri ELSE aDual0
       IN  /\ alphaPri' = aPri
           /\ alphaDual' = aDual
           /\ x' = Axpy(aPri, dir.dx, x)
           /\ s' = Axpy(aPri, dir.ds, s)
           /\ y' = Axpy(aDual, dir.dy, y)
           /\ z' = Axpy(aDual, dir.dz, z)
           /\ IF ZeroStep(aPri, aDual)
              THEN /\ failure' = "zero_step"
                   /\ Leave(Disposition(metTolerances), "loop")
                   /\ numIts' = IF Disposition(metTolerances) \in {"break", "fatal"}
                                THEN numIts ELSE numIts + 1
              ELSE /\ Leave("continue", "loop")
                   /\ numIts' = numIts + 1
                   /\ UNCHANGED failure
    /\ numUpdates' = numUpdates + 1
    /\ lastSolve' = NoSolve
    /\ ops' = << >>
    /\ secondRhs' = "not_run"
    /\ calls' = CallsOf("update", {})
    /\ UNCHANGED << normVars, cfgVars, dataVars, errArgs, gateVars, affVars, dir,
                    handle, regLarge, kkt, numGate, numFactor >>

\* SetIndent( indent ), the untransform of the iterates and the return
Return ==
    /\ pc = "after_loop"
    /\ pc' = "done"
    /\ outcome' = "success"
    /\ LET out == IF ctrl.outerEquil THEN Untransform(equil, iterates)
                  ELSE iterates
       IN  x' = out[1] /\ y' = out[2] /\ z' = out[3] /\ s' = out[4]
    /\ calls' = CallsOf("return", {})
    /\ UNCHANGED << normVars, cfgVars, dataVars, errArgs, failure, numIts, gateVars,
                    affVars, stepVars, branches, lastSolve, ldlVars, numGate,
                    numFactor, numUpdates >>

Next ==
    \/ Entry
    \/ LoopTest
    \/ ConeCheck
    \/ Gate
    \/ Factor
    \/ AffineSolve
    \/ Centrality
    \/ CombinedSolve
    \/ Update
    \/ Return

Spec == Init /\ [][Next]_vars

\* the driver with the outer equilibration on, from full, partial and no
\* warm starts
InitEquil ==
    /\ InitWith({ c \in Ctrls : /\ ~c.print /\ ~c.time /\ ~c.checkResiduals
                                /\ c.outerEquil
                                /\ ~c.forceSameStep /\ ~c.twoStage /\ c.mehrotra
                                /\ c.maxIts \in 0..2 },
                Problems)
    /\ NormIdle

SpecEquil == InitEquil /\ [][Next]_vars

\* the driver on the box-constrained problem, with and without a warm start
\* and the outer equilibration
InitBox ==
    /\ InitWith({ c \in Ctrls : /\ ~c.print /\ ~c.time /\ ~c.checkResiduals
                                /\ ~c.forceSameStep /\ ~c.twoStage /\ c.mehrotra
                                /\ c.primalInit = c.dualInit
                                /\ c.maxIts \in {-1, 1} },
                {BoxProblem})
    /\ NormIdle

SpecBox == InitBox /\ [][Next]_vars

\* the driver with every combination of print, time and checkResiduals, with
\* and without the outer equilibration, one iteration
InitComm ==
    /\ InitWith({ c \in Ctrls : /\ ~c.forceSameStep
                                /\ c.primalInit /\ c.dualInit
                                /\ c.maxStepRatio = Rat(1, 2)
                                /\ c.maxIts = 1 },
                Problems)
    /\ NormIdle

SpecComm == InitComm /\ [][Next]_vars

\* the variables of the driver
driverVars == << cfgVars, dataVars, pc, outcome, errArgs, failure, numIts,
                iterates, gateVars, affVars, stepVars, branches, lastSolve,
                ldlVars, calls, numGate, numFactor, numUpdates >>

\* if( A.Height() != A.Width() ) throw std::logic_error(...), on every process
NormCheck ==
    /\ normPc = "call"
    /\ normPc' = IF Height(A) # Width(A) THEN "logic_error" ELSE "local"
    /\ UNCHANGED << driverVars, uplo, A, grid, align, localNormSquared,
                    visits, normSquared >>

\* the loops of process p over its local entries
NormLocal(p) ==
    /\ normPc = "local"
    /\ p \notin DOMAIN localNormSquared
    /\ localNormSquared' =
          [q \in DOMAIN localNormSquared \cup {p} |->
              IF q = p THEN LocalNormSquared(p) ELSE localNormSquared[q]]
    /\ visits' =
          [g \in DOMAIN visits |->
              visits[g]
                + Cardinality({ e \in LocalVisited(p) : GlobalIndex(p, e) = g })]
    /\ UNCHANGED << driverVars, uplo, A, grid, align, normPc, normSquared >>

\* mpi::AllReduce( &localNormSquared, &normSquared, 1, mpi::SUM, VCComm )
NormReduce ==
    /\ normPc = "local"
    /\ DOMAIN localNormSquared = Procs
    /\ normSquared' = SumOf(localNormSquared)
    /\ normPc' = "returned"
    /\ UNCHANGED << driverVars, uplo, A, grid, align, localNormSquared,
                    visits >>

NextNorm ==
    \/ NormCheck
    \/ \E p \in Procs : NormLocal(p)
    \/ NormReduce

\* a call of HermitianFrobeniusNorm on a matrix of any shape, distributed
\* over any grid with any alignment; the driver is not running
InitNorm ==
    /\ InitWith({ c \in Ctrls : /\ ~c.print /\ ~c.time /\ ~c.checkResiduals
                                /\ ~c.outerEquil /\ c.primalInit /\ c.dualInit
                                /\ c.mehrotra /\ c.forceSameStep /\ c.twoStage
                                /\ c.maxIts = 0
                                /\ c.maxStepRatio = One },
                {BoxProblem})
    /\ backend = "sparse_dist"
    /\ x = << Zero, Zero >> /\ s = << One, One, One, One >>
    /\ uplo \in {"UPPER", "LOWER"}
    /\ A \in NormMatrices
    /\ grid \in [r : 1..MaxGridDim, c : 1..MaxGridDim]
    /\ align \in [col : 0..(grid.r - 1), row : 0..(grid.c - 1)]
    /\ normPc = "call"
    /\ localNormSquared = << >>
    /\ visits = [g \in (0..(Height(A) - 1)) \X (0..(Width(A) - 1)) |-> 0]
    /\ normSquared = 0

SpecNorm ==
    /\ InitNorm
    /\ [][NextNorm]_vars

-----------------------------------------------------------------------------
(* Properties of the driver *)

\* the three tolerances, as the claims state them
TolerancesMet(infeas, relComp, relObj) ==
    /\ RLe(infeas, ctrl.infeasibilityTol)
    /\ RLe(relComp, ctrl.relativeComplementarityGapTol)
    /\ RLe(relObj, ctrl.relativeObjectiveGapTol)

StepRatioInside == RLt(Zero, ctrl.maxStepRatio) /\ RLt(ctrl.maxStepRatio, One)

Counters == << numGate, numFactor, numUpdates >>

\* the step that evaluates the residuals and the gate
GateStep == pc = "gate" /\ numGate' = numGate + 1

\* a state from which the call returns successfully, or has
Succeeding ==
    \/ pc = "after_loop" /\ outcome = "none"
    \/ pc = "done" /\ outcome = "success"

\* once the call has ended nothing more happens
Terminal == [][pc # "done"]_vars

\* C1: with 0 < maxStepRatio < 1, once the cone check has passed and the
\* variables were updated (s += alphaPri*ds, z += alphaDual*dz), every entry
\* of s and of z is strictly positive, whatever the directions and with or
\* without forceSameStep; so s > 0 and z > 0 at the top of every later
\* iteration.
C1_PositiveAfterUpdate ==
    (StepRatioInside /\ numUpdates > 0) => AllPositive(s) /\ AllPositive(z)

C1_Witness ==
    /\ pc = "top"
    /\ numIts = 2
    /\ StepRatioInside
    /\ ctrl.forceSameStep
    /\ AllPositive(s) /\ AllPositive(z)
    /\ RLt(s[2], One)

\* C2: at the top of an iteration nothing of that iteration has been
\* evaluated or updated; if s or z has a nonpositive entry the cone check
\* ends the call with a logic error reporting both counts, leaving the
\* iterates as they are, and no gate, factorization or update follows.
C2_ConeCheckAborts ==
    /\ [](pc = "top" => numGate = numIts /\ numUpdates = numIts)
    /\ [][(pc = "top" /\ (NumOutside(s) > 0 \/ NumOutside(z) > 0))
            => /\ outcome' = "logic_error"
               /\ pc' = "done"
               /\ errArgs' = << NumOutside(s), NumOutside(z) >>
               /\ iterates' = iterates
               /\ Counters' = Counters]_vars
    /\ Terminal

C2_Witness ==
    /\ outcome = "logic_error"
    /\ numIts = 1
    /\ errArgs = << 0, 1 >>

\* C3: when the gate finds the three tolerances met, the loop is left for a
\* successful return, with no factorization and no update, if
\* dimacsError >= minDimacsDecreaseRatio * dimacsErrorOld or numIts = maxIts;
\* otherwise the iteration goes on to the Newton step.
C3_GateWhenMet ==
    /\ [][GateStep =>
            LET met  == TolerancesMet(infeasError', relCompGap', relObjGap')
                stop == \/ RGe(dimacsError',
                               RMul(ctrl.minDimacsDecreaseRatio, dimacsErrorOld'))
                        \/ numIts = ctrl.maxIts
            IN  /\ (met /\ stop) =>
                      /\ pc' = "after_loop"
                      /\ outcome' = "none"
                      /\ iterates' = iterates
                      /\ numFactor' = numFactor
                      /\ numUpdates' = numUpdates
                /\ (met /\ ~stop) => (pc' = "factor" /\ outcome' = "none")]_vars
    /\ [][pc = "after_loop" =>
            /\ pc' = "done"
            /\ outcome' = "success"
            /\ iterates' = iterates
            /\ Counters' = Counters]_vars

C3_Witness ==
    /\ outcome = "success"
    /\ failure = "none"
    /\ numIts = 1
    /\ numIts < ctrl.maxIts
    /\ numUpdates = 1

\* C4: the iteration-limit error is raised exactly when the gate finds the
\* tolerances unmet in the iteration with numIts = maxIts; it reports maxIts
\* and ends the call.
C4_IterationLimit ==
    /\ [][/\ (GateStep /\ numIts = ctrl.maxIts
                /\ ~TolerancesMet(infeasError', relCompGap', relObjGap'))
             => /\ outcome' = "iteration_limit"
                /\ pc' = "done"
                /\ errArgs' = << ctrl.maxIts >>
                /\ iterates' = iterates
          /\ (outcome' = "iteration_limit" /\ outcome # "iteration_limit")
             => /\ GateStep
                /\ numIts = ctrl.maxIts
                /\ ~TolerancesMet(infeasError', relCompGap', relObjGap')]_vars
    /\ Terminal

C4_Witness ==
    /\ outcome = "iteration_limit"
    /\ errArgs = << 2 >>
    /\ numUpdates = 2

\* C5: after a successful return with maxIts >= 0, the last DIMACS error is
\* <= minDimacsDecreaseRatio times the one before it or the three tolerances
\* are met by the last evaluation; the iterates are those that evaluation
\* saw; and its rcConv is <= infeasibilityTol.
C5_SuccessMeansConverged ==
    (outcome = "success" /\ ctrl.maxIts >= 0) =>
        /\ \/ RLe(dimacsError,
                  RMul(ctrl.minDimacsDecreaseRatio, dimacsErrorOld))
           \/ TolerancesMet(infeasError, relCompGap, relObjGap)
        /\ iterates = evalAt
        /\ RLe(conv.rcConv, ctrl.infeasibilityTol)

C5_Witness ==
    /\ outcome = "success"
    /\ failure = "zero_step"
    /\ numUpdates = 1
    /\ iterates = evalAt

\* C6, as claimed: with maxIts = 0 the residuals and the gate are evaluated
\* exactly once, nothing is factored or updated, and the call succeeds if
\* the tolerances are met and raises the iteration-limit error otherwise.
C6_AsClaimed ==
    (ctrl.maxIts = 0 /\ pc = "done") =>
        /\ numGate = 1
        /\ numFactor = 0
        /\ numUpdates = 0
        /\ outcome = IF TolerancesMet(infeasError, relCompGap, relObjGap)
                     THEN "success" ELSE "iteration_limit"

\* C6, amended: the same, for an initial iterate that passes the cone check.
C6_MaxItsZero ==
    (ctrl.maxIts = 0 /\ pc = "done" /\ outcome # "logic_error") =>
        /\ numGate = 1
        /\ numFactor = 0
        /\ numUpdates = 0
        /\ outcome = IF TolerancesMet(infeasError, relCompGap, relObjGap)
                     THEN "success" ELSE "iteration_limit"

C6_Witness ==
    /\ ctrl.maxIts = 0
    /\ outcome = "success"
    /\ numGate = 1
    /\ RLt(dimacsError, RMul(ctrl.minDimacsDecreaseRatio, dimacsErrorOld))

\* C7, as claimed: in every backend a failed factorization of J ends in a
\* successful return when the gate found the tolerances met, and in an error
\* when it did not.
C7_FactorFailureDisposition ==
    failure = "factor" =>
        IF metTolerances THEN Succeeding
        ELSE pc = "done" /\ outcome \in {"fatal", "exception"}

\* C8: in a sparse solve the first stage runs exactly when twoStage is set;
\* the second stage runs exactly when the first was skipped or missed the
\* tolerance; when the second misses it too the call returns successfully if
\* the tolerances were met and raises the fatal error if not.
C8_TwoStageSolve ==
    lastSolve.kind # "none" =>
        /\ IsSparse
        /\ (lastSolve.first # "skipped") <=> ctrl.twoStage
        /\ (lastSolve.second # "not_run")
              <=> (lastSolve.first \in {"skipped", "unmet"})
        /\ lastSolve.second = "unmet" =>
              /\ failure = lastSolve.kind
              /\ IF metTolerances THEN Succeeding
                 ELSE pc = "done" /\ outcome = "fatal"
        /\ lastSolve.second # "unmet" =>
              (failure = "none" /\ outcome = "none")

C8_Witness ==
    /\ lastSolve.kind = "combined"
    /\ lastSolve.first = "unmet"
    /\ lastSolve.second = "unmet"
    /\ outcome = "success"

\* C9: the update ends the call exactly when alphaPri = 0 and alphaDual = 0,
\* successfully if the tolerances were met and with the fatal error if not;
\* with at most one of them zero the loop goes on to the next iteration.
C9_ZeroStep ==
    [][(pc = "update" /\ numUpdates' = numUpdates + 1) =>
         IF REq(alphaPri', Zero) /\ REq(alphaDual', Zero)
         THEN /\ numIts' = numIts
              /\ IF metTolerances
                 THEN pc' = "after_loop" /\ outcome' = "none"
                 ELSE pc' = "done" /\ outcome' = "fatal"
         ELSE /\ pc' = "loop"
              /\ numIts' = numIts + 1
              /\ outcome' = "none"]_vars

C9_Witness ==
    /\ failure = "zero_step"
    /\ outcome = "fatal"
    /\ numUpdates = 1
    /\ REq(alphaPri, Zero) /\ REq(alphaDual, Zero)

\* C10: a failure inside an iteration ends the call: as an error, or, only
\* when the gate found the tolerances met, as a successful return.  No
\* failure site goes on with the loop.
C10_NoSilentFailure ==
    /\ failure # "none" =>
          \/ pc = "done" /\ outcome \in {"fatal", "exception"}
          \/ metTolerances /\ Succeeding
    /\ outcome \in {"logic_error", "iteration_limit", "fatal", "exception"}
          => pc = "done"

C10_Witness ==
    /\ backend = "dense_dist"
    /\ failure = "combined"
    /\ outcome = "success"

-----------------------------------------------------------------------------
(* C11: the caller's problem data Q, A, G, b, c, h is never modified: the
   equilibration scales the driver's private copies only, so on every exit
   path (success, logic error, iteration limit, fatal error, propagated
   exception) the caller's data is what was passed in. *)
C11_CallerDataUnchanged ==
    [][pre' = pre /\ (pc = "entry" => prob' = Equilibrate(pre, equil'))]_vars

\* an error exit after the copies were rescaled
C11_Witness ==
    /\ pc = "done"
    /\ outcome \in {"iteration_limit", "fatal", "exception", "logic_error"}
    /\ ctrl.outerEquil
    /\ prob # pre

-----------------------------------------------------------------------------
(* C12: with outerEquil the exit scaling of x, y, z, s undoes the entry
   scaling and is applied once on a successful exit: the iterates returned
   are the unscaled iterates of the last gate, a warm start returned before
   any update is returned as it was given, and a warm start that meets the
   tolerances with maxIts = 0 returns successfully with the given iterates. *)
C12_ExitUndoesEntry ==
    /\ (pc = "done" /\ outcome = "success" /\ ctrl.outerEquil)
          => iterates = Untransform(equil, evalAt)
    /\ (/\ pc = "done" /\ outcome = "success" /\ ctrl.outerEquil
        /\ ctrl.primalInit /\ ctrl.dualInit /\ numUpdates = 0)
          => iterates = given
    /\ (/\ pc = "done" /\ ctrl.outerEquil /\ ctrl.maxIts = 0
        /\ ctrl.primalInit /\ ctrl.dualInit /\ metTolerances)
          => (outcome = "success" /\ iterates = given)

\* a warm start that meets the tolerances, run with maxIts = 0 and a
\* scaling that is not the identity
C12_Witness ==
    /\ pc = "done" /\ outcome = "success"
    /\ ctrl.outerEquil /\ ctrl.maxIts = 0
    /\ ctrl.primalInit /\ ctrl.dualInit
    /\ metTolerances
    /\ evalAt # iterates
    /\ iterates = given

-----------------------------------------------------------------------------
(* C13: on the box-constrained problem (n = 2, Q = I, c = 0, m = 0,
   G = [I; -I], h = (1,1,0,0)) the driver converges: when the iterates given
   are inside the cone, maxIts >= 0 and no solve fails, the call ends in
   success, after an iterate passed the gate with relCompGap within the
   tolerance. *)
C13_BoxConverges ==
    (/\ pc = "done"
     /\ ctrl.maxIts >= 0
     /\ AllPositive(given[3]) /\ AllPositive(given[4])
     /\ failure = "none")
      => /\ outcome = "success"
         /\ metTolerances
         /\ RLe(relCompGap, ctrl.relativeComplementarityGapTol)

\* what the code does instead: primObj = x'Qx/2 >= 0 and
\* dualObj = -x'Qx/2 - h'z < 0 at every gate, so that relCompGap is 2
C13_GapIsTwo ==
    numGate > 0 => /\ RGe(conv.primObj, Zero)
                   /\ RLt(conv.dualObj, Zero)
                   /\ relCompGap = Two
                   /\ ~metTolerances

-----------------------------------------------------------------------------
(* C14: the four overloads implement the same state machine: whatever the
   backend, a failure of the factorization, of the affine solve or of the
   combined solve has the outcome the dense distributed overload gives it,
   a successful return when the gate found the tolerances met and an error
   when it did not. *)
C14_SameStateMachine ==
    \A site \in {"factor", "affine", "combined"} :
        failure = site =>
            IF metTolerances THEN Succeeding
            ELSE pc = "done" /\ outcome \in {"fatal", "exception"}

\* the divergence between the two dense overloads: the combined solve fails
\* after the gate found the tolerances met
C14_DenseOverloadsAgree ==
    (~IsSparse /\ failure = "combined" /\ metTolerances) => Succeeding

-----------------------------------------------------------------------------
(* C15: in the distributed overloads all processes take the same branch at
   every decision point (loop test, cone check, gate, solver failure,
   zero-step check): a process leaves the loop or raises an error only when
   every other process does the same. *)
C15_Lockstep ==
    IsDist =>
        /\ \A r1 \in Ranks, r2 \in Ranks : branches[r1] = branches[r2]
        /\ \A r \in Ranks :
              /\ outcome = "fatal" => branches[r] = "fatal"
              /\ outcome = "iteration_limit" => branches[r] = "limit"
              /\ outcome = "logic_error" => branches[r] = "logic"
              /\ pc = "after_loop" => branches[r] \in {"break", "exit"}

\* a solver failure with the tolerances unmet, on a grid of several processes
C15_Witness ==
    /\ IsDist
    /\ Cardinality(Ranks) > 1
    /\ pc = "done" /\ outcome = "fatal"
    /\ failure \in {"factor", "affine", "combined", "zero_step"}
    /\ \A r \in Ranks : branches[r] = "fatal"

-----------------------------------------------------------------------------
\* the position of the driver in the call: every step moves it forward
PcIndex ==
    CASE pc = "entry" -> 0 [] pc = "loop" -> 1 [] pc = "top" -> 2
      [] pc = "gate" -> 3 [] pc = "factor" -> 4 [] pc = "affine" -> 5
      [] pc = "centrality" -> 6 [] pc = "combined" -> 7 [] pc = "update" -> 8
      [] pc = "after_loop" -> 9 [] pc = "done" -> 10

Progress == 11 * numIts + PcIndex

(* C16: for maxIts >= 0, when every external call returns, the call
   terminates, after at most maxIts + 1 evaluations of the gate and at most
   maxIts updates of the iterates, in a successful return, a logic error,
   the iteration-limit error or the fatal error; the loop is never left
   because its condition numIts <= maxIts is false.  Termination is stated
   by a variant: every step of the driver increases Progress, which is
   bounded by 11 * maxIts + 10. *)
C16_Termination ==
    /\ [][ctrl.maxIts >= 0 => Progress' > Progress]_vars
    /\ [](ctrl.maxIts >= 0 =>
            /\ Progress <= 11 * ctrl.maxIts + 10
            /\ numGate <= ctrl.maxIts + 1
            /\ numUpdates <= ctrl.maxIts
            /\ (pc = "loop" => LoopCond(numIts))
            /\ (pc = "done" /\ outcome # "exception") =>
                  outcome \in {"success", "logic_error",
                               "iteration_limit", "fatal"})

\* the last iteration the limit allows ends in the iteration-limit error
C16_Witness ==
    /\ ctrl.maxIts = MaxIts
    /\ pc = "done" /\ outcome = "iteration_limit"
    /\ numGate = ctrl.maxIts + 1
    /\ numUpdates = ctrl.maxIts

-----------------------------------------------------------------------------
(* C17: the relative complementarity gap of the gate is s'z / (-primObj)
   when primObj < 0, else s'z / dualObj when dualObj > 0, else 2 whatever
   s'z is; with primObj >= 0 and dualObj <= 0 the gap is 2 and the
   tolerances are not met, the tolerance being below 2. *)
C17_RelCompGap ==
    numGate > 0 =>
        LET dualProd == Dot(evalAt[4], evalAt[3])
        IN  /\ RLt(conv.primObj, Zero)
                  => relCompGap = RDiv(dualProd, RNeg(conv.primObj))
            /\ (RGe(conv.primObj, Zero) /\ RLt(Zero, conv.dualObj))
                  => relCompGap = RDiv(dualProd, conv.dualObj)
            /\ (RGe(conv.primObj, Zero) /\ RLe(conv.dualObj, Zero))
                  => (/\ relCompGap = Two
                      /\ (RLt(ctrl.relativeComplementarityGapTol, Two)
                            => ~metTolerances))

\* a gate with primObj >= 0 >= dualObj, small residuals and a small
\* objective gap: only the gap of 2 keeps the tolerances unmet
C17_Witness ==
    /\ numGate > 0
    /\ RGe(conv.primObj, Zero) /\ RLe(conv.dualObj, Zero)
    /\ relCompGap = Two
    /\ RLe(infeasError, ctrl.infeasibilityTol)
    /\ RLe(relObjGap, ctrl.relativeObjectiveGapTol)
    /\ ~metTolerances

-----------------------------------------------------------------------------
(* C18: after every gate dimacsError is the largest of rbConv, rcConv,
   rhConv, relObjGap and relCompGap (none of them NaN), hence at least
   infeasError; the gate of iteration 0 compares with dimacsErrorOld = 1 and
   the gate of a later iteration with the dimacsError of the gate before
   it, which no other step changes. *)
C18_DimacsError ==
    /\ [](LET five == << conv.rbConv, conv.rcConv, conv.rhConv,
                         relObjGap, relCompGap >>
          IN  (numGate > 0 /\ \A i \in 1..5 : ~IsNaN(five[i])) =>
                /\ \A i \in 1..5 : RGe(dimacsError, five[i])
                /\ \E i \in 1..5 : dimacsError = five[i]
                /\ RGe(dimacsError, infeasError))
    /\ [][IF GateStep
          THEN /\ dimacsErrorOld' = dimacsError
               /\ numIts = 0 => dimacsErrorOld' = One
          ELSE /\ dimacsError' = dimacsError
               /\ dimacsErrorOld' = dimacsErrorOld]_vars

\* the gate of iteration 1, where the complementarity gap alone is the
\* largest of the five and the old error is that of iteration 0
C18_Witness ==
    /\ numGate = 2 /\ numIts = 1
    /\ dimacsError = relCompGap
    /\ RLt(relObjGap, relCompGap)
    /\ RLt(infeasError, relCompGap)
    /\ dimacsErrorOld # One

-----------------------------------------------------------------------------
\* alpha is at most ratio times the step that takes v + alpha*dv to the
\* boundary of the orthant
WithinBoundary(alpha, ratio, v, dv) ==
    \A i \in 1..Len(v) :
        RLt(dv[i], Zero) =>
            RLe(alpha, RMul(ratio, RDiv(RNeg(v[i]), dv[i])))

(* C19: for maxStepRatio > 0 the update computes
   alphaPri = min(maxStepRatio * MaxStep(s, ds, 1/maxStepRatio), 1) and
   alphaDual likewise from z, dz; both lie in [0, 1] and are at most
   maxStepRatio times the distance to the boundary; with forceSameStep both
   are the smaller of the two, for the affine and for the final step
   lengths; x and s move by alphaPri, y and z by alphaDual. *)
C19_StepLengths ==
    [][/\ (pc = "update" /\ RLt(Zero, ctrl.maxStepRatio)) =>
            LET eta   == ctrl.maxStepRatio
                upper == RDiv(One, eta)
                aPri  == Min(RMul(eta, MaxStep(s, dir.ds, upper)), One)
                aDual == Min(RMul(eta, MaxStep(z, dir.dz, upper)), One)
            IN  /\ alphaPri' = IF ctrl.forceSameStep
                               THEN Min(aPri, aDual) ELSE aPri
                /\ alphaDual' = IF ctrl.forceSameStep
                                THEN Min(aPri, aDual) ELSE aDual
                /\ RLe(Zero, alphaPri') /\ RLe(alphaPri', One)
                /\ RLe(Zero, alphaDual') /\ RLe(alphaDual', One)
                /\ WithinBoundary(alphaPri', eta, s, dir.ds)
                /\ WithinBoundary(alphaDual', eta, z, dir.dz)
                /\ x' = Axpy(alphaPri', dir.dx, x)
                /\ s' = Axpy(alphaPri', dir.ds, s)
                /\ y' = Axpy(alphaDual', dir.dy, y)
                /\ z' = Axpy(alphaDual', dir.dz, z)
       /\ pc = "centrality" =>
            LET aPri  == MaxStep(s, dirAff.ds, One)
                aDual == MaxStep(z, dirAff.dz, One)
            IN  /\ alphaAffPri' = IF ctrl.forceSameStep
                                  THEN Min(aPri, aDual) ELSE aPri
                /\ alphaAffDual' = IF ctrl.forceSameStep
                                   THEN Min(aPri, aDual) ELSE aDual]_vars

\* an update under forceSameStep with a common step inside (0, 1), after
\* affine step lengths that were made equal too
C19_Witness ==
    /\ pc = "loop" /\ numUpdates = 1
    /\ ctrl.forceSameStep
    /\ RLt(Zero, alphaPri) /\ RLt(alphaPri, One)
    /\ alphaPri = alphaDual
    /\ alphaAffPri = alphaAffDual /\ RLt(alphaAffPri, One)
    /\ evalAt[1] # x /\ evalAt[2] # y

-----------------------------------------------------------------------------
(* C20: the complementarity residual of the combined system is, entry by
   entry, s_i*z_i - sigma*mu, plus dsAff_i*dzAff_i with ctrl.mehrotra, for
   the s, z and mu = s'z/k of this iteration and its affine direction; the
   temporaries that Centrality leaves in ds and dz are replaced by the
   combined direction before the update computes the step lengths. *)
C20_CombinedRHS ==
    /\ pc \in {"combined", "update"} =>
          LET k      == Len(s)
              muTop  == RDiv(Dot(s, z), Rat(k, 1))
              target == RMul(sigma, muTop)
          IN  /\ Len(rmu) = k
              /\ \A i \in 1..k :
                    rmu[i] = RAdd(RSub(RMul(s[i], z[i]), target),
                                  IF ctrl.mehrotra
                                  THEN RMul(dirAff.ds[i], dirAff.dz[i])
                                  ELSE Zero)
    /\ pc = "combined" =>
          /\ dir.ds = Axpy(alphaAffPri, dirAff.ds, s)
          /\ muAff = RDiv(Dot(Axpy(alphaAffPri, dirAff.ds, s),
                              Axpy(alphaAffDual, dirAff.dz, z)),
                          Rat(Len(s), 1))
    /\ pc = "update" => dir \in Solutions

\* an update is about to use a combined direction that differs from the
\* temporaries, after a right-hand side with a shift and a corrector
C20_Witness ==
    /\ pc = "update"
    /\ ctrl.mehrotra
    /\ sigma # Zero /\ mu # Zero
    /\ \E i \in 1..Len(s) : RMul(dirAff.ds[i], dirAff.dz[i]) # Zero
    /\ dir.ds # Axpy(alphaAffPri, dirAff.ds, s)
    /\ dir.dz # DiagonalScale(dirAff.ds, dirAff.dz)

-----------------------------------------------------------------------------
\* the calls that change J's factorization, and the calls that solve with it
Factorizing == {"LDL", "Initialize", "ChangeNonzeroValues", "Factor"}
Solving == {"SolveAfter", "RegularizedSolveAfter"}

(* C21: in an iteration that reaches the update J was factored exactly once,
   before both solves, and neither J nor its factorization was touched
   between the affine and the combined solve. *)
C21_FactoredOnce ==
    /\ [](pc = "update" =>
            /\ Cardinality({ i \in DOMAIN ops : ops[i] \in {"LDL", "Factor"} }) = 1
            /\ numFactor = numIts + 1
            /\ \A i \in DOMAIN ops, j \in DOMAIN ops :
                  (ops[i] \in Factorizing /\ ops[j] \in Solving) => i < j
            /\ Cardinality({ j \in DOMAIN ops : ops[j] \in Solving }) >= 2
            /\ IsSparse =>
                  /\ handle.values = numIts /\ handle.factored = numIts
                  /\ kkt.J = UpdateDiagonal(FinishKKT(s, z, kkt.JStatic),
                                            One, regLarge))
    /\ [][(pc \in {"affine", "centrality", "combined"})
             => handle' = handle /\ kkt' = kkt]_vars

\* the second iteration of a sparse overload, both solves in two stages
C21_Witness ==
    /\ pc = "update" /\ numIts = 1
    /\ IsSparse
    /\ ops = << "ChangeNonzeroValues", "Factor",
                "SolveAfter", "RegularizedSolveAfter",
                "SolveAfter", "RegularizedSolveAfter" >>

(* C22: in the sparse overloads the loop calls sparseLDLFact.Initialize only
   in iteration 0 and only when primalInit and dualInit are both set, so at
   most once; every other iteration that factors calls ChangeNonzeroValues;
   Factor follows, once, before any solve; nothing else in the loop changes
   the handle. *)
C22_HandleProtocol ==
    /\ [](IsSparse =>
            /\ handle.initCalls <= 1
            /\ handle.initCalls = 1 => (ctrl.primalInit /\ ctrl.dualInit)
            /\ pc \in {"affine", "centrality", "combined", "update"} =>
                  /\ Len(ops) >= 2
                  /\ ops[1] = IF numIts = 0 /\ ctrl.primalInit /\ ctrl.dualInit
                              THEN "Initialize" ELSE "ChangeNonzeroValues"
                  /\ ops[2] = "Factor"
                  /\ \A i \in DOMAIN ops : i > 2 => ops[i] \in Solving
                  /\ handle.factored = numIts)
    /\ [][IsSparse /\ pc \notin {"entry", "factor"} => handle' = handle]_vars

\* second iteration after a full warm start: Initialize ran in iteration 0,
\* ChangeNonzeroValues now
C22_Witness ==
    /\ IsSparse /\ pc = "affine" /\ numIts = 1
    /\ ctrl.primalInit /\ ctrl.dualInit
    /\ handle.initCalls = 1
    /\ ops = << "ChangeNonzeroValues", "Factor" >>

\* first iteration without a full warm start: no Initialize by the loop
C22_NoWarmStart ==
    (IsSparse /\ pc = "affine" /\ numIts = 0 /\ ~ctrl.dualInit)
        => (ops[1] = "ChangeNonzeroValues" /\ handle.analysed = "util")

(* C23: in the sparse overloads, when the first stage (reg_ldl::SolveAfter,
   d in/out) misses the tolerance, RegularizedSolveAfter is called with the
   right-hand side d as KKTRHS assembled it, not with what the first stage
   left in d. *)
C23_FallbackRhs ==
    (IsSparse /\ secondRhs # "not_run") => secondRhs = "kktrhs"

\* without the first stage the fallback does get the assembled d
C23_SingleStageRhs ==
    (IsSparse /\ ~ctrl.twoStage /\ pc \in {"centrality", "update"})
        => secondRhs = "kktrhs"

\* E = twoNormEstQ + twoNormEstA + twoNormEstG + 1 of the problem being solved
C24_E ==
    RAdd(RAdd(RAdd(TwoNormEstimate(prob.Q), TwoNormEstimate(prob.A)),
              TwoNormEstimate(prob.G)), One)

\* entry i (from 1) of the large regularization as the claim states it
C24_Entry(i) ==
    IF i <= NumX THEN RMul(ctrl.xRegLarge, C24_E)
    ELSE IF i <= NumX + NumY THEN RNeg(RMul(ctrl.yRegLarge, C24_E))
    ELSE RNeg(RMul(ctrl.zRegLarge, C24_E))

(* C24: regLarge has n+m+k entries, +xRegLarge*E for i < n, -yRegLarge*E for
   n <= i < n+m and -zRegLarge*E for i >= n+m; the distributed overload,
   which assigns by global row, builds the same vector; the factored J is
   JOrig + diag(regLarge), JOrig is JStatic with -s_i/z_i on the last k rows
   and no large regularization, and the loop never modifies JStatic. *)
C24_LargeRegularization ==
    /\ []((IsSparse /\ pc # "entry") =>
            LET height == NumX + NumY + NumZ
            IN  /\ Len(regLarge) = height
                /\ \A i \in 1..height : regLarge[i] = C24_Entry(i)
                /\ IsDist =>
                      \A r \in Ranks :
                        \A iLoc \in 1..LocalHeight(r, height) :
                          RegLargeOn(r, prob)[iLoc]
                            = C24_Entry(FirstLocalRow(r, height) + iLoc)
                /\ pc \in {"affine", "centrality", "combined", "update"} =>
                      \A i \in 1..height :
                        /\ kkt.J[i] = RAdd(kkt.JOrig[i], regLarge[i])
                        /\ kkt.JOrig[i] =
                             IF i <= NumX + NumY THEN kkt.JStatic[i]
                             ELSE RSub(kkt.JStatic[i],
                                       RDiv(s[i - NumX - NumY],
                                            z[i - NumX - NumY])))
    /\ [][pc # "entry" => kkt'.JStatic = kkt.JStatic /\ regLarge' = regLarge]_vars

\* the distributed overload in its second iteration
C24_Witness ==
    /\ backend = "sparse_dist" /\ pc = "update" /\ numIts = 1
    /\ Len(regLarge) = NumX + NumY + NumZ
    /\ regLarge[NumX + NumY + NumZ] = C24_Entry(NumX + NumY + NumZ)
    /\ kkt.J # kkt.JOrig

(* C25: with s > 0 and z > 0 at the top of the iteration (the cone check
   passed) and maxStepRatio > 0, the final step lengths alphaPri and alphaDual
   are strictly positive whatever the directions, so the zero-step branch is
   not taken. *)
C25_PositiveSteps ==
    /\ []((pc = "update" /\ RLt(Zero, ctrl.maxStepRatio)) =>
            /\ AllPositive(s) /\ AllPositive(z)
            /\ RLt(Zero, MaxStep(s, dir.ds, RDiv(One, ctrl.maxStepRatio)))
            /\ RLt(Zero, MaxStep(z, dir.dz, RDiv(One, ctrl.maxStepRatio))))
    /\ [][(pc = "update" /\ RLt(Zero, ctrl.maxStepRatio)) =>
            /\ RLt(Zero, alphaPri') /\ RLt(Zero, alphaDual')
            /\ failure' # "zero_step"
            /\ pc' = "loop" /\ numIts' = numIts + 1]_vars
    /\ [](failure = "zero_step" => REq(ctrl.maxStepRatio, Zero))

\* a step shortened by a direction that leaves the cone, in the second
\* iteration
C25_Witness ==
    /\ pc = "loop" /\ numUpdates = 2
    /\ RLt(Zero, ctrl.maxStepRatio)
    /\ \E i \in DOMAIN dir.ds : RLt(dir.ds[i], Zero)
    /\ \E i \in DOMAIN dir.dz : RLt(dir.dz[i], Zero)
    /\ RLt(Zero, alphaPri) /\ RLt(alphaPri, One)
    /\ RLt(Zero, alphaDual) /\ RLt(alphaDual, One)

\* the ways IPM ends with an error
C26_Errors == {"logic_error", "iteration_limit", "fatal"}

(* C26: when IPM ends with an error (logic error, iteration limit, 'Could not
   achieve tolerances') and outerEquil is set, the exit untransform is not
   executed: x, y, z, s stay in the equilibrated scaling, and a warm start is
   left rescaled, not restored. *)
C26_ErrorLeavesScaled ==
    /\ [][(ctrl.outerEquil /\ pc' = "done" /\ outcome' \in C26_Errors) =>
            /\ pc # "after_loop"
            /\ pc # "update" => iterates' = iterates]_vars
    /\ []((/\ pc = "done" /\ outcome \in C26_Errors /\ ctrl.outerEquil
            /\ ctrl.primalInit /\ ctrl.dualInit /\ numUpdates = 0) =>
            /\ x = DiagonalScale(equil.dCol, given[1])
            /\ y = DiagonalScale(equil.dRowA, given[2])
            /\ z = DiagonalScale(equil.dRowG, given[3])
            /\ s = DiagonalSolve(equil.dRowG, given[4]))

\* iteration limit at maxIts = 0 on a warm start, under a scaling that is not
\* the identity: the caller's vectors come back changed
C26_Witness ==
    /\ pc = "done" /\ outcome = "iteration_limit"
    /\ ctrl.outerEquil /\ ctrl.primalInit /\ ctrl.dualInit
    /\ numUpdates = 0
    /\ iterates # given
    /\ Untransform(equil, iterates) = given

\* only the gate of iteration 0 has run; it found the tolerances met and a
\* DIMACS error below minDimacsDecreaseRatio, and maxIts > 0
C27_MetButLow ==
    /\ numGate = 1 /\ ctrl.maxIts > 0
    /\ metTolerances
    /\ RLt(dimacsError, ctrl.minDimacsDecreaseRatio)

(* C27 (as claimed): because dimacsErrorOld starts at 1, an initial iterate
   that meets the tolerances with dimacsError < minDimacsDecreaseRatio and
   maxIts > 0 makes the driver take at least one Newton step. *)
C27_NewtonStepTaken ==
    (C27_MetButLow /\ pc \in {"after_loop", "done"}) => numUpdates >= 1

(* C27 (amended): in iteration 0 dimacsErrorOld is 1, so an initial iterate
   that meets the tolerances ends the loop at once exactly when its
   dimacsError >= minDimacsDecreaseRatio or maxIts = 0; with maxIts > 0 and
   dimacsError < minDimacsDecreaseRatio the driver goes on to the
   factorization, and unless the factorization or a solve of that iteration
   fails it takes a Newton step, which for maxStepRatio > 0 changes the
   iterates. *)
C27_FirstGate ==
    /\ [][(pc = "gate" /\ numIts = 0 /\ metTolerances') =>
            /\ dimacsErrorOld' = One
            /\ (pc' = "after_loop") <=>
                  (\/ RGe(dimacsError', ctrl.minDimacsDecreaseRatio)
                   \/ ctrl.maxIts = 0)
            /\ pc' # "after_loop" => pc' = "factor"]_vars
    /\ []((C27_MetButLow /\ pc \in {"after_loop", "done"}) =>
            (numUpdates >= 1 \/ failure \in {"factor", "affine", "combined"}))
    /\ [][(C27_MetButLow /\ pc = "update" /\ RLt(Zero, ctrl.maxStepRatio))
             => iterates' # iterates]_vars

\* the initial iterate met the tolerances (its DIMACS error, now
\* dimacsErrorOld, is below the ratio and every tolerance is at least the
\* ratio), a step was taken and the call ended with the iteration limit
C27_Witness ==
    /\ pc = "done" /\ outcome = "iteration_limit"
    /\ numGate = 2 /\ numUpdates = 1
    /\ RLt(dimacsErrorOld, ctrl.minDimacsDecreaseRatio)
    /\ RLe(ctrl.minDimacsDecreaseRatio, ctrl.infeasibilityTol)
    /\ RLe(ctrl.minDimacsDecreaseRatio, ctrl.relativeObjectiveGapTol)
    /\ RLe(ctrl.minDimacsDecreaseRatio, ctrl.relativeComplementarityGapTol)
    /\ ~metTolerances
    /\ iterates # given

(* C28: with maxIts < 0 the loop body is never executed: IPM returns normally
   with no cone check, no residual or tolerance evaluated and no
   iteration-limit error, and the iterates returned are those of Initialize,
   untransformed when outerEquil is set. *)
C28_NegativeMaxIts ==
    /\ [](ctrl.maxIts < 0 =>
            /\ pc \in {"entry", "loop", "after_loop", "done"}
            /\ outcome \in {"none", "success"}
            /\ pc = "done" => outcome = "success"
            /\ numGate = 0 /\ numFactor = 0 /\ numUpdates = 0 /\ numIts = 0
            /\ evalAt = << >> /\ conv = NoConv /\ ~metTolerances
            /\ errArgs = << >> /\ failure = "none"
            /\ (pc = "done" /\ ctrl.primalInit /\ ctrl.dualInit)
                  => iterates = given)
    /\ [][ctrl.maxIts < 0 =>
            /\ pc = "loop" => (pc' = "after_loop" /\ iterates' = iterates)
            /\ pc = "after_loop" =>
                  /\ pc' = "done"
                  /\ x' = IF ctrl.outerEquil THEN DiagonalSolve(equil.dCol, x)
                           ELSE x
                  /\ y' = IF ctrl.outerEquil THEN DiagonalSolve(equil.dRowA, y)
                           ELSE y
                  /\ z' = IF ctrl.outerEquil THEN DiagonalSolve(equil.dRowG, z)
                           ELSE z
                  /\ s' = IF ctrl.outerEquil THEN DiagonalScale(equil.dRowG, s)
                           ELSE s]_vars

\* a warm start outside the cone comes back, unchecked, as a success
C28_Witness ==
    /\ pc = "done" /\ outcome = "success"
    /\ ctrl.maxIts < 0 /\ ctrl.outerEquil
    /\ ctrl.primalInit /\ ctrl.dualInit
    /\ ~AllPositive(s)
    /\ equil.dCol # Ones(Len(equil.dCol))
    /\ iterates = given

\* the communicating calls among the calls of one process, in order
Collectives(log) == SelectSeq(log, LAMBDA e : e.kind = "collective")

(* C29: in the distributed overloads no collective operation stands under a
   commRank == 0 guard or on a branch that depends on the rank: whatever
   ctrl.print, ctrl.time and ctrl.checkResiduals are, every process makes the
   same sequence of collective calls, and the only calls process 0 makes
   alone are Output and the timers. *)
C29_SameCollectives ==
    IsDist =>
        \A r \in Ranks :
            /\ Collectives(calls[r]) = Collectives(calls[0])
            /\ \A i \in DOMAIN calls[r] :
                  \E j \in DOMAIN calls[0] : calls[0][j] = calls[r][i]
            /\ \A j \in DOMAIN calls[0] :
                  (\A i \in DOMAIN calls[r] : calls[r][i] # calls[0][j])
                      => calls[0][j].kind \in {"output", "timer"}

\* the affine solve of the sparse distributed overload with all three
\* options set: the residual norms on every process, Output on process 0
C29_Witness ==
    /\ backend = "sparse_dist" /\ pc = "centrality"
    /\ ctrl.print /\ ctrl.time /\ ctrl.checkResiduals
    /\ \A r \in Ranks :
          \E i \in DOMAIN calls[r] :
              calls[r][i].call = "Nrm2" /\ calls[r][i].line = 1630
    /\ \E j \in DOMAIN calls[0] : calls[0][j].kind = "output"
    /\ \A r \in Ranks \ {0} :
          \A i \in DOMAIN calls[r] : calls[r][i].kind = "collective"

\* the entries of the triangle uplo selects
InTriangle(ul, i, j) == IF ul = "UPPER" THEN i <= j ELSE i >= j

(* C30: internal::HermitianFrobeniusNorm on a distributed matrix computes the
   squared norm of the sequential version: over all processes every entry of
   the selected triangle is read exactly once and no other entry is read,
   entries off the diagonal count twice their square and diagonal entries
   once, for UPPER and LOWER, every grid shape and alignment; a matrix that
   is not square raises the logic error before any summation or reduction. *)
C30_DistributedNorm ==
    /\ normPc \in {"local", "returned"} => Height(A) = Width(A)
    /\ \A g \in DOMAIN visits :
          visits[g] <= IF InTriangle(uplo, g[1], g[2]) THEN 1 ELSE 0
    /\ normPc = "returned" =>
          /\ \A g \in DOMAIN visits :
                visits[g] = IF InTriangle(uplo, g[1], g[2]) THEN 1 ELSE 0
          /\ HermitianFrobeniusNormSeq(uplo, A).outcome = "returned"
          /\ normSquared = HermitianFrobeniusNormSeq(uplo, A).normSquared
          /\ normSquared =
                SumOf([g \in { e \in DOMAIN visits :
                                 InTriangle(uplo, e[1], e[2]) } |->
                         (IF g[1] # g[2] THEN 2 ELSE 1)
                           * A[g[1]][g[2]] * A[g[1]][g[2]]])
    /\ (normPc # "idle" /\ Height(A) # Width(A)) =>
          /\ normPc \in {"call", "logic_error"}
          /\ HermitianFrobeniusNormSeq(uplo, A).outcome = "logic_error"
          /\ localNormSquared = << >>
          /\ \A g \in DOMAIN visits : visits[g] = 0
          /\ normSquared = 0

\* the lower triangle of a 3 x 3 matrix on a 2 x 2 grid, both alignments
\* different from 0
C30_Witness ==
    /\ normPc = "returned"
    /\ uplo = "LOWER"
    /\ Height(A) = 3
    /\ grid = [r |-> 2, c |-> 2]
    /\ align = [col |-> 1, row |-> 1]
    /\ DOMAIN localNormSquared = Procs
    /\ \A p \in Procs : localNormSquared[p] < normSquared

\* a matrix that is not square
C30_NotSquare ==
    ~(normPc = "logic_error" /\ Height(A) = 2 /\ Width(A) = 3)

====
